---------------------------- MODULE Spec2Model ----------------------------
(***************************************************************************)
(* A model of pyqualw2's input-file classes (pyqualw2/config/inputs.py):   *)
(* W2ConSimpleInput, ProfileInput and BathymetryInput, the filesystem      *)
(* guard _create_parents_or_fail they share, and the text handling they    *)
(* rest on (text-mode reading, str.splitlines, str.split, str(), float(),  *)
(* int(), pathlib's suffix); and of the card decoders of w2_con.csv        *)
(* (pyqualw2/config/subconfig.py): SubConfig, parse_line_pair_table and    *)
(* parse_row_variables; and of the simulation runner run_model             *)
(* (pyqualw2/OLD_run_sim.py).                                              *)
(*                                                                         *)
(* Text is a sequence of one-character strings.  A Python number is a      *)
(* record [t, n]: t is "int" or "float" and n is the value in hundredths,  *)
(* so that str() and float()/int() are real conversions between numbers    *)
(* and text.  Python's 0-based index k of a list is index k + 1 here.      *)
(***************************************************************************)
EXTENDS Integers, Sequences, FiniteSets, TLC

VARIABLES
    fs,        \* the filesystem: [dirs: set of directories, files: path -> text]
    w2con,     \* the W2ConSimpleInput object, or None
    loaded,    \* history: per class, the file its object was built from
    lastSet,   \* history: the last value assigned to w2con.timedata, or None
    profile,   \* the ProfileInput object, or None
    bathy,     \* the BathymetryInput object, or None
    last,      \* history: the last call, its arguments, its error, its effects
    arg,       \* the input of a function applied on its own, or None
    ret,       \* its result, or None
    clock,     \* time.time(), in seconds
    process,   \* the model executable: "none", "running", "exited" or "killed"
    mtime,     \* per monitored output file: [exists, t], its modification time
    run        \* run_model: its position, its locals, its outcome

simvars == <<clock, process, mtime, run>>
vars == <<fs, w2con, loaded, lastSet, profile, bathy, last, arg, ret,
          clock, process, mtime, run>>

None == [none |-> TRUE]

\* nothing is being run
NoSimulation == clock = 0 /\ process = "none" /\ mtime = None /\ run = None

(***************************************************************************)
(* Bounds of the model.                                                    *)
(***************************************************************************)
MaxLines == 3
MaxBody == 5
MaxTokens == 4
MaxSegments == 2
MaxLayers == 2

(***************************************************************************)
(* Sequences of characters.                                                *)
(***************************************************************************)
RECURSIVE Concat(_)
Concat(ss) == IF ss = <<>> THEN <<>> ELSE Head(ss) \o Concat(Tail(ss))

RECURSIVE JoinWith(_, _)
JoinWith(ss, sep) ==
    IF ss = <<>> THEN <<>>
    ELSE IF Len(ss) = 1 THEN ss[1]
    ELSE ss[1] \o sep \o JoinWith(Tail(ss), sep)

StartsWith(s, p) == Len(s) >= Len(p) /\ SubSeq(s, 1, Len(p)) = p

\* index of the first element of s that is in cs, 0 when there is none
FirstIn(s, cs) ==
    IF \E i \in 1..Len(s) : s[i] \in cs
    THEN CHOOSE i \in 1..Len(s) : s[i] \in cs /\ \A j \in 1..(i - 1) : s[j] \notin cs
    ELSE 0

\* str.split(sep) for a one-character sep
RECURSIVE SplitOn(_, _)
SplitOn(s, c) ==
    LET i == FirstIn(s, {c}) IN
    IF i = 0 THEN <<s>>
    ELSE <<SubSeq(s, 1, i - 1)>> \o SplitOn(SubSeq(s, i + 1, Len(s)), c)

\* lines of s with their terminators kept; "\r\n" is one terminator
RECURSIVE SplitKeep(_, _)
SplitKeep(s, seps) ==
    IF s = <<>> THEN <<>>
    ELSE LET i == FirstIn(s, seps) IN
         IF i = 0 THEN <<s>>
         ELSE LET e == IF s[i] = "\r" /\ i < Len(s) /\ s[i + 1] = "\n"
                       THEN i + 1 ELSE i
              IN <<SubSeq(s, 1, e)>> \o SplitKeep(SubSeq(s, e + 1, Len(s)), seps)

\* str.splitlines(keepends=True): the line boundaries of the characters modelled
LineBoundaries == {"\n", "\r", "\f"}
SplitLinesKeep(s) == SplitKeep(s, LineBoundaries)

\* open(filename) reads in text mode with universal newlines: "\r\n" and "\r"
\* reach the program as "\n"
RECURSIVE Translate(_)
Translate(s) ==
    IF s = <<>> THEN <<>>
    ELSE IF Head(s) = "\r"
         THEN <<"\n">> \o Translate(IF Len(s) > 1 /\ s[2] = "\n"
                                    THEN SubSeq(s, 3, Len(s)) ELSE Tail(s))
         ELSE <<Head(s)>> \o Translate(Tail(s))

\* f.readlines() of a file opened in text mode
ReadLines(raw) == SplitKeep(Translate(raw), {"\n"})

Whitespace == {" ", "\n", "\r", "\t", "\f"}

RECURSIVE LStrip(_)
LStrip(s) == IF s # <<>> /\ Head(s) \in Whitespace THEN LStrip(Tail(s)) ELSE s
RECURSIVE RStrip(_)
RStrip(s) ==
    IF s # <<>> /\ s[Len(s)] \in Whitespace THEN RStrip(SubSeq(s, 1, Len(s) - 1)) ELSE s
Strip(s) == RStrip(LStrip(s))

(***************************************************************************)
(* Numbers and their text.                                                 *)
(***************************************************************************)
DigitChars == <<"0", "1", "2", "3", "4", "5", "6", "7", "8", "9">>
IsDigit(c) == \E d \in 1..Len(DigitChars) : DigitChars[d] = c
DigitVal(c) == (CHOOSE d \in 1..Len(DigitChars) : DigitChars[d] = c) - 1

PyInt(k) == [t |-> "int", n |-> 100 * k]
PyFloat(hundredths) == [t |-> "float", n |-> hundredths]
PyEq(a, b) == a.n = b.n

RECURSIVE Digits(_)
Digits(k) ==
    IF k < 10 THEN <<DigitChars[k + 1]>>
    ELSE Digits(k \div 10) \o <<DigitChars[(k % 10) + 1]>>

RECURSIVE DigitsVal(_)
DigitsVal(s) ==
    IF s = <<>> THEN 0
    ELSE 10 * DigitsVal(SubSeq(s, 1, Len(s) - 1)) + DigitVal(s[Len(s)])

AllDigits(s) == s # <<>> /\ \A i \in 1..Len(s) : IsDigit(s[i])

\* str(x)
Str(x) ==
    IF x.t = "int" THEN Digits(x.n \div 100)
    ELSE Digits(x.n \div 100) \o <<".">> \o Digits((x.n % 100) \div 10)
         \o (IF x.n % 10 = 0 THEN <<>> ELSE Digits(x.n % 10))

\* int(s): [err, v]
ParseInt(s) ==
    LET t == Strip(s) IN
    IF AllDigits(t) THEN [err |-> "none", v |-> PyInt(DigitsVal(t))]
    ELSE [err |-> "ValueError", v |-> None]

\* float(s): [err, v], for the decimal forms str() produces
ParseFloat(s) ==
    LET t == Strip(s)
        parts == SplitOn(t, ".")
    IN  IF Len(parts) = 1 /\ AllDigits(t)
        THEN [err |-> "none", v |-> PyFloat(100 * DigitsVal(t))]
        ELSE IF Len(parts) = 2 /\ AllDigits(parts[1]) /\ AllDigits(parts[2])
                /\ Len(parts[2]) <= 2
        THEN [err |-> "none",
              v |-> PyFloat(100 * DigitsVal(parts[1])
                            + (IF Len(parts[2]) = 1 THEN 10 ELSE 1) * DigitsVal(parts[2]))]
        ELSE [err |-> "ValueError", v |-> None]

(***************************************************************************)
(* Paths and the filesystem.                                               *)
(***************************************************************************)
\* a path is [dir: sequence of directory names, name: the final component]
RECURSIVE LastDot(_)
LastDot(name) ==
    IF name = <<>> THEN 0
    ELSE IF name[Len(name)] = "." THEN Len(name)
    ELSE LastDot(SubSeq(name, 1, Len(name) - 1))

\* pathlib's Path.suffix
Suffix(path) ==
    LET name == path.name
        i == LastDot(name)
    IN  IF 1 < i /\ i < Len(name) THEN SubSeq(name, i, Len(name)) ELSE <<>>

Csv == <<".", "c", "s", "v">>
Npt == <<".", "n", "p", "t">>

Exists(f, path) == path \in DOMAIN f.files
ParentExists(f, path) == path.dir \in f.dirs
Prefixes(d) == {SubSeq(d, 1, k) : k \in 0..Len(d)}

WriteFile(f, path, text) ==
    [f EXCEPT !.files = [p \in (DOMAIN f.files) \cup {path} |->
                            IF p = path THEN text ELSE f.files[p]]]

\* _create_parents_or_fail(path, overwrite, create_parents): [err, fs, effects]
CreateParentsAlways(f, path, overwrite, create_parents) ==
    IF Exists(f, path)
    THEN [err |-> IF overwrite THEN "none" ELSE "OSError", fs |-> f,
          effects |-> <<"exists">>]
    ELSE IF ~ParentExists(f, path)
         THEN [err |-> "none",
               fs |-> [f EXCEPT !.dirs = f.dirs \cup Prefixes(path.dir)],
               effects |-> <<"exists", "mkdir">>]
         ELSE [err |-> "none", fs |-> f, effects |-> <<"exists">>]

OverwriteAlways(f, path, overwrite, create_parents) ==
    IF Exists(f, path)
    THEN [err |-> "none", fs |-> f, effects |-> <<"exists">>]
    ELSE IF ~ParentExists(f, path)
         THEN IF create_parents
              THEN [err |-> "none",
                    fs |-> [f EXCEPT !.dirs = f.dirs \cup Prefixes(path.dir)],
                    effects |-> <<"exists", "mkdir">>]
              ELSE [err |-> "OSError", fs |-> f, effects |-> <<"exists">>]
         ELSE [err |-> "none", fs |-> f, effects |-> <<"exists">>]

CreateParentsOrFail(f, path, overwrite, create_parents) ==
    IF Exists(f, path)
    THEN [err |-> IF overwrite THEN "none" ELSE "OSError", fs |-> f,
          effects |-> <<"exists">>]
    ELSE IF ~ParentExists(f, path)
         THEN IF create_parents
              THEN [err |-> "none",
                    fs |-> [f EXCEPT !.dirs = f.dirs \cup Prefixes(path.dir)],
                    effects |-> <<"exists", "mkdir">>]
              ELSE [err |-> "OSError", fs |-> f, effects |-> <<"exists">>]
         ELSE [err |-> "none", fs |-> f, effects |-> <<"exists">>]

\* the record of a call kept in `last`
Call(op, cls, filename, overwrite, create_parents, err, before, effects) ==
    [op |-> op, cls |-> cls, filename |-> filename, overwrite |-> overwrite,
     create_parents |-> create_parents, err |-> err, before |-> before,
     effects |-> effects, warned |-> FALSE]

NothingLoaded == [w2con |-> None, profile |-> None, bathy |-> None]

NoCall == Call("none", "none", None, FALSE, FALSE, "none", None, <<>>)

(***************************************************************************)
(* W2ConSimpleInput.                                                       *)
(***************************************************************************)
TMSTRT == <<"T", "M", "S", "T", "R", "T">>

\* from_file's loop over enumerate(lines): the 1-based index of the first line
\* that starts with TMSTRT, 0 when there is none
RECURSIVE FindTimeCardFrom(_, _)
FindTimeCardFrom(lines, k) ==
    IF k > Len(lines) THEN 0
    ELSE IF StartsWith(lines[k], TMSTRT) THEN k
    ELSE FindTimeCardFrom(lines, k + 1)

\* W2ConSimpleInput.from_file after the extension check: [err, obj]
W2ParseSameLine(filename, raw) ==
    LET lines == ReadLines(raw)
        k == FindTimeCardFrom(lines, 1)
    IN  IF k = 0 THEN [err |-> "ValueError", obj |-> None]
        ELSE [err |-> "none",
              obj |-> [filename |-> filename, content |-> Concat(lines),
                       time_lineno |-> k - 1]]

W2Parse(filename, raw) ==
    LET lines == ReadLines(raw)
        k == FindTimeCardFrom(lines, 1)
    IN  IF k = 0 THEN [err |-> "ValueError", obj |-> None]
        ELSE [err |-> "none",
              obj |-> [filename |-> filename, content |-> Concat(lines),
                       time_lineno |-> (k - 1) + 1]]

\* the timedata getter: [err, value]
GetTimedata(obj) ==
    LET lines == SplitLinesKeep(obj.content) IN
    IF obj.time_lineno >= Len(lines) THEN [err |-> "IndexError", value |-> None]
    ELSE LET fields == SplitOn(lines[obj.time_lineno + 1], ",") IN
         IF Len(fields) < 3 THEN [err |-> "ValueError", value |-> None]
         ELSE LET a == ParseFloat(fields[1])
                  b == ParseFloat(fields[2])
                  c == ParseInt(fields[3])
              IN  IF a.err # "none" \/ b.err # "none" \/ c.err # "none"
                  THEN [err |-> "ValueError", value |-> None]
                  ELSE [err |-> "none", value |-> <<a.v, b.v, c.v>>]

\* the timedata setter: [err, obj]
SetTimedata(obj, value) ==
    LET lines == SplitLinesKeep(obj.content) IN
    IF obj.time_lineno >= Len(lines) THEN [err |-> "IndexError", obj |-> obj]
    ELSE LET fields == SplitOn(lines[obj.time_lineno + 1], ",") IN
         IF Len(fields) < 3 THEN [err |-> "ValueError", obj |-> obj]
         ELSE LET rest == SubSeq(fields, 4, Len(fields))
                  new == JoinWith(<<Str(value[1]), Str(value[2]), Str(value[3])>>
                                      \o rest, <<",">>)
              IN  [err |-> "none",
                   obj |-> [obj EXCEPT !.content =
                              Concat([lines EXCEPT ![obj.time_lineno + 1] = new])]]

\* W2ConSimpleInput.to_file: [err, fs, effects]
W2Write(obj, f, filename, overwrite, create_parents) ==
    IF Suffix(filename) # Csv
    THEN [err |-> "NotImplementedError", fs |-> f, effects |-> <<>>]
    ELSE LET g == CreateParentsOrFail(f, filename, overwrite, create_parents) IN
         IF g.err # "none" THEN g
         ELSE [err |-> "none", fs |-> WriteFile(g.fs, filename, obj.content),
               effects |-> g.effects \o <<"open_w", "write">>]

\* W2ConSimpleInput.from_file: [err, obj, effects]
W2Read(f, filename) ==
    IF Suffix(filename) # Csv
    THEN [err |-> "NotImplementedError", obj |-> None, effects |-> <<>>]
    ELSE IF ~Exists(f, filename)
    THEN [err |-> "FileNotFoundError", obj |-> None, effects |-> <<"open_r">>]
    ELSE LET r == W2Parse(filename, f.files[filename]) IN
         [err |-> r.err, obj |-> r.obj, effects |-> <<"open_r", "read">>]

W2FromFile(filename) ==
    LET r == W2Read(fs, filename) IN
    /\ last' = Call("from_file", "w2con", filename, FALSE, FALSE, r.err, fs, r.effects)
    /\ IF r.err = "none"
       THEN /\ w2con' = r.obj
            /\ loaded' = [loaded EXCEPT !.w2con = [raw |-> fs.files[filename],
                                                   content |-> r.obj.content]]
            /\ lastSet' = None
       ELSE UNCHANGED <<w2con, loaded, lastSet>>
    /\ UNCHANGED <<fs, profile, bathy, arg, ret>>
    /\ UNCHANGED simvars

W2SetTimedata(value) ==
    /\ w2con # None
    /\ LET r == SetTimedata(w2con, value) IN
       /\ w2con' = r.obj
       /\ lastSet' = IF r.err = "none" THEN [value |-> value] ELSE lastSet
       /\ last' = Call("set_timedata", "w2con", None, FALSE, FALSE, r.err, fs, <<>>)
    /\ UNCHANGED <<fs, loaded, profile, bathy, arg, ret>>
    /\ UNCHANGED simvars

W2ToFile(filename, overwrite, create_parents) ==
    /\ w2con # None
    /\ LET r == W2Write(w2con, fs, filename, overwrite, create_parents) IN
       /\ fs' = r.fs
       /\ last' = Call("to_file", "w2con", filename, overwrite, create_parents,
                       r.err, fs, r.effects)
    /\ UNCHANGED <<w2con, loaded, lastSet, profile, bathy, arg, ret>>
    /\ UNCHANGED simvars

(***************************************************************************)
(* ProfileInput.  A profile file is a sequence of lines and a line is the   *)
(* sequence of its whitespace-separated tokens (a blank line is <<>>): a    *)
(* word [w |-> characters], a number [v |-> value] or NaN.                  *)
(***************************************************************************)
W(chars) == [w |-> chars]
N(k) == [v |-> k]
NaN == [nan |-> TRUE]
IsWord(tok) == "w" \in DOMAIN tok
IsNumber(tok) == ~IsWord(tok)

\* the text of a token and the token of a text
TokText(tok) ==
    IF IsWord(tok) THEN tok.w
    ELSE IF tok = NaN THEN <<"n", "a", "n">> ELSE Digits(tok.v)
TokOfText(chars) ==
    IF AllDigits(chars) THEN N(DigitsVal(chars))
    ELSE IF chars = <<"n", "a", "n">> THEN NaN ELSE W(chars)

RowWidth == 9

\* a scan that stops at the first token that differs from the last one
ScanNameForward(split, j) ==
    LET ks == {k \in 1..j : split[k] # split[Len(split)]} IN
    IF ks = {} THEN None
    ELSE LET first == CHOOSE k \in ks : \A m \in ks : k <= m IN
         [name |-> JoinWith([k \in 1..first |-> TokText(split[k])], <<" ">>)]

\* the name in a block header: the backward scan of _iter_blocks over split[j],
\* j = len(split) - 1 .. 0, with word the last token; None when no token differs
RECURSIVE ScanName(_, _)
ScanName(split, j) ==
    IF j < 1 THEN None
    ELSE IF split[j] # split[Len(split)]
         THEN [name |-> JoinWith([k \in 1..j |-> TokText(split[k])], <<" ">>)]
         ELSE ScanName(split, j - 1)

\* re.split(r"\s+", line.strip()) of a blank line is [""], never []
BlockName(line) ==
    IF line = <<>> THEN None ELSE ScanName(line, Len(line) - 1)

\* the rows of a block: the lines before the first blank line
RECURSIVE TakeRows(_)
TakeRows(lines) ==
    IF lines = <<>> \/ Head(lines) = <<>> THEN <<>>
    ELSE <<Head(lines)>> \o TakeRows(Tail(lines))

\* pd.read_csv(joined, sep=r"\s+", header=None).to_numpy().flatten(): the first
\* row sets the number of columns, a shorter row is filled with NaN, a longer
\* row is a ParserError and no row at all an EmptyDataError
PadRow(row, width) == row \o [k \in 1..(width - Len(row)) |-> NaN]
ReadCsvFlat(rows) ==
    IF rows = <<>> THEN [err |-> "EmptyDataError", values |-> <<>>]
    ELSE IF \E k \in 1..Len(rows) : Len(rows[k]) > Len(rows[1])
    THEN [err |-> "ParserError", values |-> <<>>]
    ELSE [err |-> "none",
          values |-> Concat([k \in 1..Len(rows) |-> PadRow(rows[k], Len(rows[1]))])]

\* ProfileInput._iter_blocks: [err, blocks], a block being [name, values, rows]
\* (rows: the lines its values were read from)
RECURSIVE IterBlocks(_)
IterBlocks(lines) ==
    IF lines = <<>> THEN [err |-> "none", blocks |-> <<>>]
    ELSE LET i == IF lines[1] = <<>> THEN 1 ELSE 0 IN
         IF i >= Len(lines) THEN [err |-> "none", blocks |-> <<>>]
         ELSE LET nm == BlockName(lines[i + 1]) IN
              IF nm = None THEN [err |-> "ValueError", blocks |-> <<>>]
              ELSE LET after == SubSeq(lines, i + 2, Len(lines))
                       rows == TakeRows(after)
                       used == IF Len(rows) < Len(after) THEN Len(rows) + 1
                               ELSE Len(rows)
                       data == ReadCsvFlat(rows)
                   IN  IF data.err # "none" THEN [err |-> data.err, blocks |-> <<>>]
                       ELSE LET more == IterBlocks(SubSeq(after, used + 1, Len(after)))
                            IN  IF more.err # "none" THEN more
                                ELSE [err |-> "none",
                                      blocks |-> <<[name |-> nm.name,
                                                    values |-> data.values,
                                                    rows |-> rows]>> \o more.blocks]

\* data[name] = df over the blocks in order: a repeated name keeps its first
\* place and takes the later values
RECURSIVE AsDict(_, _)
AsDict(blocks, d) ==
    IF blocks = <<>> THEN d
    ELSE LET b == Head(blocks)
             e == [name |-> b.name, values |-> b.values]
         IN  AsDict(Tail(blocks),
                    IF \E k \in 1..Len(d) : d[k].name = b.name
                    THEN [k \in 1..Len(d) |-> IF d[k].name = b.name THEN e ELSE d[k]]
                    ELSE Append(d, e))

ProfileHeader == <<W(<<"P", "r", "o", "f", "i", "l", "e">>), W(<<"f", "i", "l", "e", ":">>)>>

\* a from_file that gives up when the first line names no profile file
ProfileParseStrict(filename, lines) ==
    IF Len(lines) < 2 \/ ~(Len(lines[1]) = 3 /\ SubSeq(lines[1], 1, 2) = ProfileHeader)
    THEN [err |-> "ValueError", obj |-> None, warned |-> FALSE]
    ELSE LET it == IterBlocks(SubSeq(lines, 3, Len(lines)))
             data == AsDict(it.blocks, <<>>)
         IN  IF it.err # "none"
                \/ \E j, k \in 1..Len(data) : Len(data[j].values) # Len(data[k].values)
             THEN [err |-> "ValueError", obj |-> None, warned |-> FALSE]
             ELSE [err |-> "none", warned |-> FALSE,
                   obj |-> [filename |-> filename,
                            profile_file |-> [fname |-> TokText(lines[1][3])],
                            comment |-> lines[2],
                            data |-> data]]

\* ProfileInput.from_file after the extension check: [err, obj, warned]
ProfileParse(filename, lines) ==
    IF Len(lines) < 2 THEN [err |-> "ValueError", obj |-> None, warned |-> FALSE]
    ELSE LET matched == Len(lines[1]) = 3 /\ SubSeq(lines[1], 1, 2) = ProfileHeader
             it == IterBlocks(SubSeq(lines, 3, Len(lines)))
             data == AsDict(it.blocks, <<>>)
         IN  IF it.err # "none"
             THEN [err |-> "ValueError", obj |-> None, warned |-> ~matched]
             ELSE IF \E j, k \in 1..Len(data) : Len(data[j].values) # Len(data[k].values)
             THEN [err |-> "ValueError", obj |-> None, warned |-> ~matched]
             ELSE [err |-> "none", warned |-> ~matched,
                   obj |-> [filename |-> filename,
                            profile_file |-> IF matched THEN [fname |-> TokText(lines[1][3])]
                                             ELSE None,
                            comment |-> lines[2],
                            data |-> data]]

UpperLetters == <<"A", "B", "C", "D", "E", "F", "G", "H", "I", "J", "K", "L", "M",
                  "N", "O", "P", "Q", "R", "S", "T", "U", "V", "W", "X", "Y", "Z">>
LowerLetters == <<"a", "b", "c", "d", "e", "f", "g", "h", "i", "j", "k", "l", "m",
                  "n", "o", "p", "q", "r", "s", "t", "u", "v", "w", "x", "y", "z">>
LowerCase(c) ==
    IF \E k \in 1..Len(UpperLetters) : UpperLetters[k] = c
    THEN LowerLetters[CHOOSE k \in 1..Len(UpperLetters) : UpperLetters[k] = c]
    ELSE c
Lower(chars) == [k \in 1..Len(chars) |-> LowerCase(chars[k])]

\* ProfileInput._get_label: [err, label]
GetLabel(name) ==
    LET low == Lower(name) IN
    IF StartsWith(low, <<"t", "e", "m", "p">>) THEN [err |-> "none", label |-> <<"T", "1">>]
    ELSE IF StartsWith(low, <<"t", "d", "s">>) THEN [err |-> "none", label |-> <<"C", "1">>]
    ELSE IF StartsWith(low, <<"d", "o">>) THEN [err |-> "none", label |-> <<"C", "2">>]
    ELSE [err |-> "NotImplementedError", label |-> <<>>]

\* the tokens a text is read back as
Tokens(chars) ==
    LET parts == SplitOn(chars, " ")
        keep == {k \in 1..Len(parts) : parts[k] # <<>>}
        RECURSIVE Pick(_)
        Pick(k) == IF k > Len(parts) THEN <<>>
                   ELSE (IF k \in keep THEN <<TokOfText(parts[k])>> ELSE <<>>) \o Pick(k + 1)
    IN  Pick(1)

\* arr.to_numpy().reshape((-1, 9)) as rows
Reshape(values) ==
    [r \in 1..(Len(values) \div RowWidth) |->
        SubSeq(values, (r - 1) * RowWidth + 1, r * RowWidth)]

\* the lines of one quantity in to_file: [err, lines]
BlockLines(entry) ==
    LET lab == GetLabel(entry.name) IN
    IF lab.err # "none" THEN [err |-> lab.err, lines |-> <<>>]
    ELSE IF Len(entry.values) % RowWidth # 0 THEN [err |-> "ValueError", lines |-> <<>>]
    ELSE IF \E k \in 1..Len(entry.values) : IsWord(entry.values[k])
    THEN [err |-> "ValueError", lines |-> <<>>]
    ELSE [err |-> "none",
          lines |-> <<Tokens(entry.name) \o [k \in 1..RowWidth |-> W(lab.label)]>>
                    \o Reshape(entry.values) \o << <<>> >>]

RECURSIVE AllBlockLines(_)
AllBlockLines(data) ==
    IF data = <<>> THEN [err |-> "none", lines |-> <<>>]
    ELSE LET b == BlockLines(Head(data)) IN
         IF b.err # "none" THEN b
         ELSE LET more == AllBlockLines(Tail(data)) IN
              IF more.err # "none" THEN more
              ELSE [err |-> "none", lines |-> b.lines \o more.lines]

\* the lines of the file f.write("\n".join(lines)) leaves: a final "" in the
\* list only ends the line before it
JoinedKeepsLast(lines) == lines
Joined(lines) ==
    IF lines # <<>> /\ lines[Len(lines)] = <<>> THEN SubSeq(lines, 1, Len(lines) - 1)
    ELSE lines

\* ProfileInput.to_file: [err, fs, effects]
ProfileWrite(obj, f, filename, overwrite, create_parents) ==
    IF Suffix(filename) # Npt
    THEN [err |-> "NotImplementedError", fs |-> f, effects |-> <<>>]
    ELSE LET g == CreateParentsOrFail(f, filename, overwrite, create_parents) IN
         IF g.err # "none" THEN g
         ELSE LET head == << ProfileHeader \o
                             <<IF obj.profile_file # None
                               THEN TokOfText(obj.profile_file.fname)
                               ELSE W(<<"N", "o", "n", "e">>)>>,
                             obj.comment >>
                  body == AllBlockLines(obj.data)
              IN  IF body.err # "none"
                  THEN [err |-> body.err, fs |-> g.fs, effects |-> g.effects]
                  ELSE [err |-> "none",
                        fs |-> WriteFile(g.fs, filename, Joined(head \o body.lines)),
                        effects |-> g.effects \o <<"open_w", "write">>]

\* ProfileInput.from_file: [err, obj, effects, warned]
ProfileRead(f, filename) ==
    IF Suffix(filename) # Npt
    THEN [err |-> "NotImplementedError", obj |-> None, effects |-> <<>>, warned |-> FALSE]
    ELSE IF ~Exists(f, filename)
    THEN [err |-> "FileNotFoundError", obj |-> None, effects |-> <<"open_r">>,
          warned |-> FALSE]
    ELSE LET r == ProfileParse(filename, f.files[filename]) IN
         [err |-> r.err, obj |-> r.obj, effects |-> <<"open_r", "read">>,
          warned |-> r.warned]

ProfileFromFile(filename) ==
    LET r == ProfileRead(fs, filename) IN
    /\ last' = [Call("from_file", "profile", filename, FALSE, FALSE, r.err, fs, r.effects)
                EXCEPT !.warned = r.warned]
    /\ IF r.err = "none"
       THEN /\ profile' = r.obj
            /\ loaded' = [loaded EXCEPT !.profile = [raw |-> fs.files[filename]]]
       ELSE UNCHANGED <<profile, loaded>>
    /\ UNCHANGED <<fs, w2con, lastSet, bathy, arg, ret>>
    /\ UNCHANGED simvars

ProfileToFile(filename, overwrite, create_parents) ==
    /\ profile # None
    /\ LET r == ProfileWrite(profile, fs, filename, overwrite, create_parents) IN
       /\ fs' = r.fs
       /\ last' = Call("to_file", "profile", filename, overwrite, create_parents,
                       r.err, fs, r.effects)
    /\ UNCHANGED <<w2con, loaded, lastSet, profile, bathy, arg, ret>>
    /\ UNCHANGED simvars

(***************************************************************************)
(* BathymetryInput.  A bathymetry file is a sequence of lines and a line is *)
(* the sequence of its comma-separated cells: a word, a number or the empty *)
(* cell.  A DataFrame is [columns: names, rows: sequences of cells].        *)
(***************************************************************************)
EmptyCell == [e |-> TRUE]
CellText(c) == IF c = EmptyCell THEN <<>> ELSE TokText(c)

\* re.match(r"\$(.*),", lines[0]).group(0): the line up to its last comma, when
\* the line starts with "$" and has a comma
CommentOf(line) ==
    IF Len(line) >= 2 /\ CellText(line[1]) # <<>> /\ CellText(line[1])[1] = "$"
    THEN [cells |-> SubSeq(line, 1, Len(line) - 1) \o <<EmptyCell>>]
    ELSE None

\* BathymetryInput._segment_data_column_map and its inverse
SegmentColumn(name) ==
    CASE name = <<"D", "L", "X">> -> name \o <<" ", "[", "m", "]">>
      [] name = <<"E", "L", "W", "S">> -> name \o <<" ", "[", "m", "]">>
      [] name = <<"P", "H", "I", "0">> -> name \o <<" ", "[", "r", "a", "d", "]">>
      [] OTHER -> name
RawColumnKeepsUnits(name) == name
RawColumn(name) ==
    IF \E raw \in {<<"D", "L", "X">>, <<"E", "L", "W", "S">>, <<"P", "H", "I", "0">>} :
          SegmentColumn(raw) = name
    THEN CHOOSE raw \in {<<"D", "L", "X">>, <<"E", "L", "W", "S">>, <<"P", "H", "I", "0">>} :
          SegmentColumn(raw) = name
    ELSE name

\* the indices of seq that satisfy keep, in order
RECURSIVE Keep(_, _, _)
Keep(seq, keep, k) ==
    IF k > Len(seq) THEN <<>>
    ELSE (IF k \in keep THEN <<seq[k]>> ELSE <<>>) \o Keep(seq, keep, k + 1)

CellAt(row, k) == IF k <= Len(row) THEN row[k] ELSE EmptyCell

\* pd.read_csv skips the lines that are blank
NonBlank(block) == Keep(block, {k \in 1..Len(block) : block[k] # <<EmptyCell>>}, 1)

\* the name pd.read_csv gives the column of header cell k
ColumnName(header, k) ==
    IF header[k] # EmptyCell THEN header[k]
    ELSE IF k = 1 THEN W(<<"S", "E", "G">>)
    ELSE W(<<"U", "n", "n", "a", "m", "e", "d", ":", " ">> \o Digits(k - 1))

\* _ingest_segment_data(pd.read_csv(lines[1:6], index_col=False)): the header
\* line names the columns, every column of the block becomes a row, the rows
\* with an empty cell are dropped, the row of the first column names the columns
IngestSegmentData(lines) ==
    LET block == NonBlank(lines) IN
    IF block = <<>> THEN [err |-> "EmptyDataError", df |-> None]
    ELSE LET header == block[1]
             body == Tail(block)
             column(k) == <<ColumnName(header, k)>>
                          \o [r \in 1..Len(body) |-> CellAt(body[r], k)]
             kept == {k \in 1..Len(header) :
                         \A r \in 1..Len(body) : CellAt(body[r], k) # EmptyCell}
             rows == Keep([k \in 1..Len(header) |-> column(k)], kept, 1)
         IN  IF rows = <<>> THEN [err |-> "IndexError", df |-> None]
             ELSE [err |-> "none",
                   df |-> [columns |-> [c \in 1..Len(rows[1]) |->
                                           SegmentColumn(CellText(rows[1][c]))],
                           rows |-> Tail(rows)]]

\* _format_export_segment_data(df).to_csv(f, header=None): the lines written
FormatExportSegmentData(df) ==
    [c \in 1..Len(df.columns) |->
        <<TokOfText(RawColumn(df.columns[c]))>>
        \o [r \in 1..Len(df.rows) |-> df.rows[r][c]]]

\* _ingest_data(pd.read_csv(lines[7:], header=None)): the last column is
\* dropped and the layer number, the last column left, is moved to the front
IngestData(lines) ==
    LET block == NonBlank(lines) IN
    IF block = <<>> THEN [err |-> "EmptyDataError", df |-> None]
    ELSE IF \E r \in 1..Len(block) : Len(block[r]) > Len(block[1])
    THEN [err |-> "ParserError", df |-> None]
    ELSE LET width == Len(block[1]) - 1 IN
         IF width < 2 THEN [err |-> "ValueError", df |-> None]
         ELSE [err |-> "none",
               df |-> [columns |-> <<"Layer #", "Layer height [m]">>
                                   \o [k \in 1..(width - 2) |-> <<"Width", k>>],
                       rows |-> [r \in 1..Len(block) |->
                                   <<CellAt(block[r], width)>>
                                   \o [k \in 1..(width - 1) |-> CellAt(block[r], k)]]]]

\* _format_export_data(df).to_csv(f, index=False, header=None): the lines written
FormatExportData(df) ==
    [r \in 1..Len(df.rows) |-> Tail(df.rows[r]) \o <<df.rows[r][1]>>]

\* BathymetryInput.from_file after the extension check: [err, obj]
BathyParse(filename, lines) ==
    IF lines = <<>> THEN [err |-> "IndexError", obj |-> None]
    ELSE LET seg == IngestSegmentData(SubSeq(lines, 2, IF Len(lines) < 6 THEN Len(lines) ELSE 6))
         IN  IF seg.err # "none" THEN [err |-> seg.err, obj |-> None]
             ELSE IF Len(lines) < 7 THEN [err |-> "IndexError", obj |-> None]
             ELSE LET data == IngestData(SubSeq(lines, 8, Len(lines))) IN
                  IF data.err # "none" THEN [err |-> data.err, obj |-> None]
                  ELSE [err |-> "none",
                        obj |-> [filename |-> filename,
                                 comment |-> CommentOf(lines[1]),
                                 segment_data |-> seg.df,
                                 ignored |-> lines[7],
                                 data |-> data.df]]

\* BathymetryInput.from_file: [err, obj, effects]
BathyReadOpensFirst(f, filename) ==
    IF ~Exists(f, filename)
    THEN [err |-> "FileNotFoundError", obj |-> None, effects |-> <<"open_r">>]
    ELSE IF Suffix(filename) # Csv
    THEN [err |-> "NotImplementedError", obj |-> None, effects |-> <<"open_r", "read">>]
    ELSE LET r == BathyParse(filename, f.files[filename]) IN
         [err |-> r.err, obj |-> r.obj, effects |-> <<"open_r", "read">>]

BathyRead(f, filename) ==
    IF Suffix(filename) # Csv
    THEN [err |-> "NotImplementedError", obj |-> None, effects |-> <<>>]
    ELSE IF ~Exists(f, filename)
    THEN [err |-> "FileNotFoundError", obj |-> None, effects |-> <<"open_r">>]
    ELSE LET r == BathyParse(filename, f.files[filename]) IN
         [err |-> r.err, obj |-> r.obj, effects |-> <<"open_r", "read">>]

\* BathymetryInput.to_file: [err, fs, effects]
BathyWrite(obj, f, filename, overwrite, create_parents) ==
    IF Suffix(filename) # Csv
    THEN [err |-> "NotImplementedError", fs |-> f, effects |-> <<>>]
    ELSE LET g == CreateParentsOrFail(f, filename, overwrite, create_parents) IN
         IF g.err # "none" THEN g
         ELSE [err |-> "none",
               fs |-> WriteFile(g.fs, filename,
                        <<IF obj.comment # None THEN obj.comment.cells ELSE <<EmptyCell>> >>
                        \o FormatExportSegmentData(obj.segment_data)
                        \o <<obj.ignored>>
                        \o FormatExportData(obj.data)),
               effects |-> g.effects \o <<"open_w", "write">>]

BathyFromFile(filename) ==
    LET r == BathyRead(fs, filename) IN
    /\ last' = Call("from_file", "bathy", filename, FALSE, FALSE, r.err, fs, r.effects)
    /\ IF r.err = "none"
       THEN /\ bathy' = r.obj
            /\ loaded' = [loaded EXCEPT !.bathy = [raw |-> fs.files[filename]]]
       ELSE UNCHANGED <<bathy, loaded>>
    /\ UNCHANGED <<fs, w2con, lastSet, profile, arg, ret>>
    /\ UNCHANGED simvars

BathyToFile(filename, overwrite, create_parents) ==
    /\ bathy # None
    /\ LET r == BathyWrite(bathy, fs, filename, overwrite, create_parents) IN
       /\ fs' = r.fs
       /\ last' = Call("to_file", "bathy", filename, overwrite, create_parents,
                       r.err, fs, r.effects)
    /\ UNCHANGED <<w2con, loaded, lastSet, profile, bathy, arg, ret>>
    /\ UNCHANGED simvars

(***************************************************************************)
(* The files, paths and values the model draws its inputs from.            *)
(***************************************************************************)
Dir == <<"d">>
InCsv == [dir |-> Dir, name |-> <<"i", ".", "c", "s", "v">>]
OutCsv == [dir |-> Dir, name |-> <<"o", ".", "c", "s", "v">>]

\* line bodies of a w2_con.csv: the time card's header and value lines (the
\* value line with and without the padding commas of the real files), a header
\* that is not at the start of its line, and a line holding a form feed
W2Bodies == {
    TMSTRT \o <<",", "Y">>,
    <<" ">> \o TMSTRT,
    <<"1", ",", "2", ",", "3", ",", ",">>,
    <<"1", ",", "2", ",", "3">>,
    <<"1", ",", "2">>,
    <<"X", "\f", "Y">> }

Eols == {<<"\n">>, <<"\r", "\n">>}

RECURSIVE Render(_, _, _)
Render(bodies, eol, final) ==
    IF bodies = <<>> THEN <<>>
    ELSE IF Len(bodies) = 1 THEN bodies[1] \o (IF final THEN eol ELSE <<>>)
    ELSE bodies[1] \o eol \o Render(Tail(bodies), eol, final)

TimeValues == {<<PyInt(0), PyInt(40), PyInt(1922)>>,
               <<PyFloat(250), PyFloat(325), PyInt(7)>>}

BaseFs == [dirs |-> {<<>>, Dir}, files |-> <<>>]

InNpt == [dir |-> Dir, name |-> <<"i", ".", "n", "p", "t">>]
OutNpt == [dir |-> Dir, name |-> <<"o", ".", "n", "p", "t">>]

T1 == W(<<"T", "1">>)
Conc1 == W(<<"C", "1">>)
TemperC == W(<<"T", "e", "m", "p", "e", "r", "C">>)
TDS == W(<<"T", "D", "S">>)
Mgl == W(<<"m", "g", "l">>)

\* the kinds of line after the comment line of a profile file: a blank line,
\* the header of a block, a row of n values
LineKinds == {[k |-> "blank", n |-> 0], [k |-> "temp", n |-> 0], [k |-> "tds", n |-> 0],
              [k |-> "row", n |-> RowWidth], [k |-> "row", n |-> 3]}

\* the lines of the given kinds; the values are numbered in reading order
RECURSIVE BuildBody(_, _)
BuildBody(kinds, next) ==
    IF kinds = <<>> THEN <<>>
    ELSE LET k == Head(kinds) IN
         IF k.k = "row"
         THEN <<[j \in 1..k.n |-> N(next + j - 1)]>> \o BuildBody(Tail(kinds), next + k.n)
         ELSE << CASE k.k = "blank" -> <<>>
                   [] k.k = "temp" -> <<TemperC>> \o [j \in 1..RowWidth |-> T1]
                   [] k.k = "tds" -> <<TDS, Mgl>> \o [j \in 1..RowWidth |-> Conc1] >>
              \o BuildBody(Tail(kinds), next)

FirstLines == {ProfileHeader \o <<W(<<"p", ".", "c", "s", "v">>)>>, <<W(<<"x">>)>>}
CommentLine == <<W(<<"m", "a", "d", "e">>), W(<<"b", "y">>), W(<<"h", "a", "n", "d">>)>>

\* a profile file of a first line, a comment line and lines of the given kinds
ProfileFile(h, kinds) == <<h, CommentLine>> \o BuildBody(kinds, 1)

\* header lines of up to MaxTokens tokens
HeaderTokens == {W(<<"A">>), W(<<"B">>), T1}
HeaderLines == UNION {[1..n -> HeaderTokens] : n \in 0..MaxTokens}

(***************************************************************************)
(* The specification of a session with one w2_con.csv.                     *)
(***************************************************************************)
InitW2Con ==
    /\ \E n \in 0..MaxLines : \E bodies \in [1..n -> W2Bodies] :
          \E eol \in Eols, final \in BOOLEAN :
             fs = WriteFile(BaseFs, InCsv, Render(bodies, eol, final))
    /\ w2con = None
    /\ loaded = NothingLoaded
    /\ lastSet = None
    /\ profile = None
    /\ bathy = None
    /\ last = NoCall
    /\ NoSimulation
    /\ arg = None
    /\ ret = None

NextW2Con ==
    \/ W2FromFile(InCsv)
    \/ \E v \in TimeValues : W2SetTimedata(v)
    \/ \E ow \in BOOLEAN : W2ToFile(OutCsv, ow, FALSE)

SpecW2Con == InitW2Con /\ [][NextW2Con]_vars

(***************************************************************************)
(* The specification of a session with one profile file.                   *)
(***************************************************************************)
InitProfile ==
    /\ \/ fs = WriteFile(BaseFs, InNpt, <<>>)
       \/ \E h \in FirstLines : fs = WriteFile(BaseFs, InNpt, <<h>>)
       \/ \E n \in 0..MaxBody : \E kinds \in [1..n -> LineKinds] :
             \E h \in FirstLines : fs = WriteFile(BaseFs, InNpt, ProfileFile(h, kinds))
    /\ w2con = None
    /\ loaded = NothingLoaded
    /\ lastSet = None
    /\ profile = None
    /\ bathy = None
    /\ last = NoCall
    /\ NoSimulation
    /\ arg = None
    /\ ret = None

NextProfile ==
    \/ \E p \in {InNpt, OutNpt} : ProfileFromFile(p)
    \/ \E ow \in BOOLEAN : ProfileToFile(OutNpt, ow, FALSE)

SpecProfile == InitProfile /\ [][NextProfile]_vars

(***************************************************************************)
(* The specification of the file handling of the three input classes: a    *)
(* session starts with the file of one class on disk, and from_file and    *)
(* to_file are called with paths that exist, do not exist, lie in a         *)
(* directory that does not exist, or carry the extension of another class. *)
(***************************************************************************)
\* the defaults of to_file's keyword arguments
DefaultOverwrite == FALSE
DefaultCreateParents == FALSE

InBathy == [dir |-> Dir, name |-> <<"b", ".", "c", "s", "v">>]
OutBathy == [dir |-> Dir, name |-> <<"c", ".", "c", "s", "v">>]
DeepDir == <<"nd", "sub">>
Deep(path) == [dir |-> DeepDir, name |-> path.name]
NoSuffix == [dir |-> Dir, name |-> <<"c", "s", "v">>]
Hidden(ext) == [dir |-> Dir, name |-> ext]

W2Paths == {InCsv, OutCsv, Deep(OutCsv), InNpt, Deep(InNpt), NoSuffix, Hidden(Csv)}
BathyPaths == {InBathy, OutBathy, Deep(OutBathy), InNpt, Deep(InNpt), NoSuffix, Hidden(Csv)}
ProfilePaths == {InNpt, OutNpt, Deep(OutNpt), InCsv, InBathy, Deep(InCsv), Hidden(Npt)}

W2Sources == {TMSTRT \o <<",", "Y", "\r", "\n", "1", ",", "2", ",", "3", ",", "\r", "\n">>,
              <<"X", "\n">>}

ProfileSources ==
    {<<ProfileHeader \o <<W(<<"p", ".", "c", "s", "v">>)>>, CommentLine>>
        \o BuildBody(<<[k |-> "temp", n |-> 0], [k |-> "row", n |-> RowWidth],
                       [k |-> "blank", n |-> 0]>>, 1),
     <<ProfileHeader \o <<W(<<"p", ".", "c", "s", "v">>)>>, CommentLine>>
        \o BuildBody(<<[k |-> "temp", n |-> 0], [k |-> "row", n |-> 3]>>, 1),
     <<CommentLine>>}

SegmentRow(name) == <<W(name), N(5), N(6), EmptyCell>>
BathySources ==
    {<< <<W(<<"$", "c">>), EmptyCell>>,
        <<EmptyCell, N(1), N(2), EmptyCell>>,
        SegmentRow(<<"D", "L", "X">>),
        SegmentRow(<<"E", "L", "W", "S">>),
        SegmentRow(<<"P", "H", "I", "0">>),
        SegmentRow(<<"F", "R", "I", "C">>),
        <<W(<<"t">>), EmptyCell>>,
        <<N(10), N(0), N(3), N(1), EmptyCell>>,
        <<N(10), N(2), N(3), N(2), EmptyCell>> >>,
     << <<W(<<"$", "c">>), EmptyCell>>,
        <<EmptyCell, N(1), N(2), EmptyCell>>,
        SegmentRow(<<"D", "L", "X">>) >>}

InitFiles ==
    /\ \/ \E raw \in W2Sources : fs = WriteFile(BaseFs, InCsv, raw)
       \/ \E lines \in ProfileSources : fs = WriteFile(BaseFs, InNpt, lines)
       \/ \E lines \in BathySources : fs = WriteFile(BaseFs, InBathy, lines)
    /\ w2con = None
    /\ loaded = NothingLoaded
    /\ lastSet = None
    /\ profile = None
    /\ bathy = None
    /\ last = NoCall
    /\ NoSimulation
    /\ arg = None
    /\ ret = None

NextFiles ==
    \/ \E p \in W2Paths : W2FromFile(p)
    \/ \E p \in ProfilePaths : ProfileFromFile(p)
    \/ \E p \in BathyPaths : BathyFromFile(p)
    \/ \E p \in W2Paths, ow \in BOOLEAN, cp \in BOOLEAN : W2ToFile(p, ow, cp)
    \/ \E p \in ProfilePaths, ow \in BOOLEAN, cp \in BOOLEAN : ProfileToFile(p, ow, cp)
    \/ \E p \in BathyPaths, ow \in BOOLEAN, cp \in BOOLEAN : BathyToFile(p, ow, cp)
    \/ \E p \in W2Paths : W2ToFile(p, DefaultOverwrite, DefaultCreateParents)
    \/ \E p \in ProfilePaths : ProfileToFile(p, DefaultOverwrite, DefaultCreateParents)
    \/ \E p \in BathyPaths : BathyToFile(p, DefaultOverwrite, DefaultCreateParents)

SpecFiles == InitFiles /\ [][NextFiles]_vars

(***************************************************************************)
(* The specification of a session with one bathymetry file.  The file has  *)
(* a first line, the header of the segment block naming n segments, the    *)
(* four rows DLX, ELWS, PHI0 and FRIC, the ignored line and the matrix of  *)
(* one line per layer: the height, m widths and the layer number.  The     *)
(* lines of the segment block end in padS empty cells and those of the     *)
(* matrix in padD; one cell of the segment block may be missing.           *)
(***************************************************************************)
SegmentNames == << <<"D", "L", "X">>, <<"E", "L", "W", "S">>,
                   <<"P", "H", "I", "0">>, <<"F", "R", "I", "C">> >>
Pad(n) == [k \in 1..n |-> EmptyCell]
SegmentValue(r, k) == N(100 * r + k)
Height(l) == N(1000 + l)
Width(l, k) == N(10 * l + k)

BathyFile(first, n, m, padS, padD, layers, hole) ==
    <<first>>
    \o << <<EmptyCell>> \o [k \in 1..n |-> N(k)] \o Pad(padS) >>
    \o [r \in 1..4 |->
          <<W(SegmentNames[r])>>
          \o [k \in 1..n |-> IF hole = <<r, k>> THEN EmptyCell ELSE SegmentValue(r, k)]
          \o Pad(padS)]
    \o << <<W(<<"t">>), EmptyCell>> >>
    \o [l \in 1..layers |->
          <<Height(l)>> \o [k \in 1..m |-> Width(l, k)] \o <<N(l)>> \o Pad(padD)]

BathyFirstLines == {<<W(<<"$", "c">>), EmptyCell>>, <<W(<<"c">>)>>}
Holes == {<<0, 0>>, <<2, 1>>}

InitBathy ==
    /\ \E first \in BathyFirstLines, n \in 0..MaxSegments, m \in 0..MaxSegments,
          padS \in 0..1, padD \in 0..1, layers \in 1..MaxLayers, hole \in Holes :
          fs = WriteFile(BaseFs, InBathy, BathyFile(first, n, m, padS, padD, layers, hole))
    /\ w2con = None
    /\ loaded = NothingLoaded
    /\ lastSet = None
    /\ profile = None
    /\ bathy = None
    /\ last = NoCall
    /\ NoSimulation
    /\ arg = None
    /\ ret = None

NextBathy ==
    \/ \E p \in {InBathy, OutBathy} : BathyFromFile(p)
    \/ \E ow \in BOOLEAN : BathyToFile(OutBathy, ow, FALSE)

SpecBathy == InitBathy /\ [][NextBathy]_vars

(***************************************************************************)
(* _iter_blocks applied to one header line followed by one row.            *)
(***************************************************************************)
InitBlockName ==
    /\ arg \in HeaderLines
    /\ ret = None
    /\ fs = BaseFs
    /\ w2con = None
    /\ loaded = NothingLoaded
    /\ lastSet = None
    /\ profile = None
    /\ bathy = None
    /\ last = NoCall
    /\ NoSimulation

ApplyIterBlocks ==
    /\ arg # <<>>
    /\ ret = None
    /\ ret' = IterBlocks(<<arg, <<N(1), N(2)>> >>)
    /\ UNCHANGED <<fs, w2con, loaded, lastSet, profile, bathy, last, arg>>
    /\ UNCHANGED simvars

SpecBlockName == InitBlockName /\ [][ApplyIterBlocks]_vars

(***************************************************************************)
(* run_model (pyqualw2/OLD_run_sim.py): the executable is launched, and    *)
(* after a first sleep the loop polls the process and the modification     *)
(* times of three output files until the process ends, the files fall      *)
(* silent or wait_time has passed.  Time passes in the sleeps; while the    *)
(* program sleeps the running executable may write its output files, and   *)
(* it may exit at any moment.  arg is [wait_time].                         *)
(***************************************************************************)
iovars == <<fs, w2con, loaded, lastSet, profile, bathy, last, arg, ret>>

output_files == <<"two_31.csv", "qwo_31.csv", "tsr_1_seg31.csv">>
ActivityTimeout == 10
SettleSeconds == 10
PollSeconds == 5
StallSeconds == 10

Absent == [exists |-> FALSE, t |-> 0]
ModifiedAt(t) == [exists |-> TRUE, t |-> t]

\* check_file_activity(file_path) at time now
CheckFileActivity(m, file, now) == m[file].exists /\ now - m[file].t < ActivityTimeout

\* any_file_active after the for loop over output_files
AnyFileActive(m, now) ==
    \E k \in 1..Len(output_files) : CheckFileActivity(m, output_files[k], now)

\* process.kill(), taskkill /F /IM on Windows
KillNothing(p) == p
Kill(p) == IF p = "running" THEN "killed" ELSE p

\* time.time() - last_activity_time > 10
StalledSooner(now, last_activity_time) == now - last_activity_time >= StallSeconds
Stalled(now, last_activity_time) == now - last_activity_time > StallSeconds

\* the condition of the while loop
StillWaiting(p, now, start_time, wait_time) == p = "running" /\ now - start_time < wait_time

\* what the output files may be after a sleep from time from to time to: the
\* running executable has written each file at the start or the end of the
\* sleep, or not at all
Writes(m, p, from, to) ==
    IF p # "running" THEN {m}
    ELSE LET written == {ModifiedAt(from + 1), ModifiedAt(to)} IN
         {w \in [DOMAIN m -> {m[f] : f \in DOMAIN m} \cup written] :
             \A f \in DOMAIN m : w[f] = m[f] \/ w[f] \in written}

Running(pc) == [pc |-> pc, start_time |-> 0, last_activity_time |-> 0,
                outcome |-> "none", message |-> "", polls |-> <<>>]
Done(r, outcome, message) == [r EXCEPT !.pc = "done", !.outcome = outcome,
                                       !.message = message]

\* subprocess.Popen, start_time = time.time()
Launch ==
    /\ run.pc = "launch"
    /\ \/ /\ process' = "running"
          /\ run' = [run EXCEPT !.pc = "settle", !.start_time = clock]
       \/ /\ process' = process
          /\ run' = Done(run, "raised", "OSError")
    /\ UNCHANGED <<clock, mtime>>
    /\ UNCHANGED iovars

\* time.sleep(10), last_activity_time = time.time()
Settle ==
    /\ run.pc = "settle"
    /\ clock' = clock + SettleSeconds
    /\ mtime' \in Writes(mtime, process, clock, clock')
    /\ run' = [run EXCEPT !.pc = "while", !.last_activity_time = clock']
    /\ UNCHANGED process
    /\ UNCHANGED iovars

\* while process.poll() is None and (time.time() - start_time) < wait_time
While ==
    /\ run.pc = "while"
    /\ run' = [run EXCEPT !.pc = IF StillWaiting(process, clock, run.start_time,
                                                 arg.wait_time)
                                 THEN "poll" ELSE "after"]
    /\ UNCHANGED <<clock, process, mtime>>
    /\ UNCHANGED iovars

\* the body of the loop up to its sleep or its return
Poll ==
    /\ run.pc = "poll"
    /\ LET any_file_active == AnyFileActive(mtime, clock)
           polled == [run EXCEPT !.polls = Append(@, [t |-> clock,
                                                      active |-> any_file_active])]
       IN  IF any_file_active
           THEN /\ run' = [polled EXCEPT !.pc = "sleep", !.last_activity_time = clock]
                /\ UNCHANGED process
           ELSE IF Stalled(clock, run.last_activity_time)
           THEN /\ process' = Kill(process)
                /\ run' = Done(polled, "returned", "No file activity detected")
           ELSE /\ run' = [polled EXCEPT !.pc = "sleep"]
                /\ UNCHANGED process
    /\ UNCHANGED <<clock, mtime>>
    /\ UNCHANGED iovars

\* time.sleep(5)
Sleep ==
    /\ run.pc = "sleep"
    /\ clock' = clock + PollSeconds
    /\ mtime' \in Writes(mtime, process, clock, clock')
    /\ run' = [run EXCEPT !.pc = "while"]
    /\ UNCHANGED process
    /\ UNCHANGED iovars

\* after the loop: if process.poll() is None, kill and raise
After ==
    /\ run.pc = "after"
    /\ IF process = "running"
       THEN /\ process' = Kill(process)
            /\ run' = Done(run, "raised", "Simulation timed out")
       ELSE /\ run' = Done(run, "returned", "Model execution completed")
            /\ UNCHANGED process
    /\ UNCHANGED <<clock, mtime>>
    /\ UNCHANGED iovars

\* the executable exits on its own
ProcessExits ==
    /\ process = "running"
    /\ process' = "exited"
    /\ UNCHANGED <<clock, mtime, run>>
    /\ UNCHANGED iovars

MaxWaitSteps == 5
WaitTimes == {PollSeconds * k : k \in 0..MaxWaitSteps}
                \cup {PollSeconds * k + 2 : k \in 0..MaxWaitSteps}

InitRunModel ==
    /\ arg \in [wait_time : WaitTimes]
    /\ clock = 0
    /\ process = "none"
    /\ mtime \in [{output_files[k] : k \in 1..Len(output_files)}
                    -> {Absent, ModifiedAt(-60)}]
    /\ run = Running("launch")
    /\ ret = None
    /\ fs = BaseFs
    /\ w2con = None
    /\ loaded = NothingLoaded
    /\ lastSet = None
    /\ profile = None
    /\ bathy = None
    /\ last = NoCall

RunModelStep == Launch \/ Settle \/ While \/ Poll \/ Sleep \/ After

NextRunModel == RunModelStep \/ ProcessExits

SpecRunModel == InitRunModel /\ [][NextRunModel]_vars

\* run_model is one thread of a running interpreter: it takes its next step
SpecRunModelFair == SpecRunModel /\ WF_vars(RunModelStep)

(***************************************************************************)
(* Properties of W2ConSimpleInput, checked under SpecW2Con.              *)
(***************************************************************************)
\* the two lists of lines have the same length and differ at most at Python
\* index k
OnlyLineChanged(before, after, k) ==
    /\ Len(after) = Len(before)
    /\ \A i \in 1..Len(before) : i # k + 1 => after[i] = before[i]

\* C1: assigning timedata changes only the line at index time_lineno: after
\* any sequence of assignments content has as many lines as it had when
\* from_file built the object and every other line is unchanged, and the same
\* holds for the file to_file then writes, compared with the source file.
C1_OnlyTimeLineChanges ==
    w2con # None =>
        /\ OnlyLineChanged(SplitLinesKeep(loaded.w2con.content),
                           SplitLinesKeep(w2con.content), w2con.time_lineno)
        /\ (last.op = "to_file" /\ last.err = "none") =>
               OnlyLineChanged(ReadLines(loaded.w2con.raw),
                               ReadLines(fs.files[last.filename]),
                               w2con.time_lineno)

\* C2: reading timedata after an assignment that succeeded returns the value
\* assigned last.
C2_ReadsBackLastAssigned ==
    lastSet # None =>
        LET r == GetTimedata(w2con) IN
        /\ r.err = "none"
        /\ \A i \in 1..3 : PyEq(r.value[i], lastSet.value[i])

LineStarts(text) == {p \in 1..Len(text) : p = 1 \/ text[p - 1] = "\n"}
CardStarts(text) ==
    {p \in LineStarts(text) : StartsWith(SubSeq(text, p, Len(text)), TMSTRT)}
NewlinesBefore(text, p) == Cardinality({q \in 1..(p - 1) : text[q] = "\n"})
SetMin(S) == CHOOSE x \in S : \A y \in S : x <= y

\* C3: from_file sets time_lineno to one plus the index of the first line that
\* starts with TMSTRT, keeps content equal to the text of the file (as a
\* text-mode read gives it, every line ending in "\n"), and raises ValueError
\* when no line starts with TMSTRT.
C3_FromFileFindsTimeCard ==
    (last.op = "from_file" /\ last.cls = "w2con" /\ last.effects = <<"open_r", "read">>) =>
        LET text == Translate(last.before.files[last.filename])
            cards == CardStarts(text)
        IN  IF cards = {} THEN last.err = "ValueError"
            ELSE /\ last.err = "none"
                 /\ w2con.filename = last.filename
                 /\ w2con.content = text
                 /\ w2con.time_lineno = 1 + NewlinesBefore(text, SetMin(cards))

\* a file with carriage returns whose time card is not on its first line has
\* been read
C3_Witness ==
    /\ last.op = "from_file" /\ last.err = "none"
    /\ w2con.time_lineno = 2
    /\ \E i \in DOMAIN loaded.w2con.raw : loaded.w2con.raw[i] = "\r"

(***************************************************************************)
(* Properties of ProfileInput, under SpecProfile and SpecBlockName.         *)
(***************************************************************************)
ProfileWritten ==
    last.op = "to_file" /\ last.cls = "profile" /\ last.err = "none"

BodyOf(lines) == SubSeq(lines, 3, Len(lines))
IsHeaderAt(body, k) == body[k] # <<>> /\ (k = 1 \/ body[k - 1] = <<>>)
IsRowAt(body, k) == body[k] # <<>> /\ ~IsHeaderAt(body, k)
WrittenLayout(lines) ==
    LET body == BodyOf(lines) IN
    /\ body # <<>> => body[1] # <<>> /\ body[Len(body)] # <<>>
    /\ \A k \in 1..Len(body) :
          /\ body[k] = <<>> => body[k - 1] # <<>>
          /\ IsRowAt(body, k) =>
                /\ \A t \in 1..Len(body[k]) : IsNumber(body[k][t])
                /\ IsHeaderAt(body, k - 1) => Len(body[k]) = RowWidth
          /\ IsHeaderAt(body, k) =>
                /\ BlockName(body[k]) # None
                /\ GetLabel(BlockName(body[k]).name).err = "none"
                /\ \A j \in 1..(k - 1) :
                      IsHeaderAt(body, j) => BlockName(body[j]) # BlockName(body[k])

\* to_file is called on the object with a destination it may write
ProfileToFileCalled ==
    /\ last.op = "to_file" /\ last.cls = "profile"
    /\ Suffix(last.filename) = Npt
    /\ ParentExists(last.before, last.filename)
    /\ ~Exists(last.before, last.filename) \/ last.overwrite

C9_ValuesInReadingOrder ==
    (last.op = "from_file" /\ last.cls = "profile" /\ last.err = "none") =>
        LET blocks == IterBlocks(BodyOf(loaded.profile.raw)).blocks IN
        \A k \in 1..Len(blocks) :
            (/\ GetLabel(blocks[k].name).err = "none"
             /\ \A j \in (k + 1)..Len(blocks) : blocks[j].name # blocks[k].name) =>
                \E e \in 1..Len(profile.data) :
                    /\ profile.data[e].name = blocks[k].name
                    /\ profile.data[e].values = Concat(blocks[k].rows)

SetMax(S) == CHOOSE x \in S : \A y \in S : x >= y

ToFileCalled == last.op = "to_file"
Opened == \E k \in 1..Len(last.effects) : last.effects[k] = "open_w"

\* C4: to_file with overwrite=False on a path that exists raises before any
\* write and leaves the file system, the existing file included, as it was; a
\* file that exists is opened for writing only under overwrite=True.
C4_NoSilentOverwrite ==
    (ToFileCalled /\ Exists(last.before, last.filename)) =>
        /\ ~last.overwrite => (last.err # "none" /\ ~Opened /\ fs = last.before)
        /\ (Opened \/ fs.files[last.filename] # last.before.files[last.filename])
              => last.overwrite

\* a to_file without overwrite was refused on a path that exists
C4_Witness ==
    /\ ToFileCalled
    /\ Exists(last.before, last.filename)
    /\ ~last.overwrite
    /\ Suffix(last.filename) # <<>>
    /\ last.err = "OSError"

\* C5: to_file with create_parents=False, which is the default, on a path
\* whose parent directory does not exist raises and leaves the file system as
\* it was; directories appear only under create_parents=True.
C5_ParentsOnlyOnRequest ==
    /\ ~DefaultCreateParents
    /\ ToFileCalled =>
        /\ (~last.create_parents /\ ~ParentExists(last.before, last.filename))
              => (last.err # "none" /\ fs = last.before)
        /\ fs.dirs # last.before.dirs => last.create_parents

\* a to_file without create_parents was refused for a missing directory
C5_Witness ==
    /\ ToFileCalled
    /\ ~last.create_parents
    /\ ~ParentExists(last.before, last.filename)
    /\ Suffix(last.filename) # <<>>
    /\ last.err = "OSError"

\* the extension a class expects
Extension(cls) == IF cls = "profile" THEN Npt ELSE Csv
EndsWith(s, e) ==
    Len(s) >= Len(e) /\ SubSeq(s, Len(s) - Len(e) + 1, Len(s)) = e

\* C6: from_file and to_file of every class reject a filename that does not
\* end in the class's extension with NotImplementedError, having touched
\* nothing: no file opened or read, no destination checked, nothing created.
C6_ExtensionCheckedFirst ==
    (last.op \in {"from_file", "to_file"}
     /\ ~EndsWith(last.filename.name, Extension(last.cls))) =>
        /\ last.err = "NotImplementedError"
        /\ last.effects = <<>>
        /\ fs = last.before

\* a from_file was refused for its extension although the file exists
C6_Witness ==
    /\ last.op = "from_file"
    /\ ~EndsWith(last.filename.name, Extension(last.cls))
    /\ Exists(last.before, last.filename)
    /\ last.err = "NotImplementedError"


(***************************************************************************)
(* Properties of the decoding and encoding of profile files.               *)
(***************************************************************************)
ProfileFileRead == last.op = "from_file" /\ last.cls = "profile"
                /\ last.effects = <<"open_r", "read">>
DistinctNames(blocks) ==
    \A j, k \in 1..Len(blocks) : j # k => blocks[j].name # blocks[k].name

\* C11: a profile file of at least two lines whose blocks all decode, under
\* names that differ and that to_file can label, to different numbers of
\* values is read by from_file without an error.
C11_MismatchIsNoFailure ==
    ProfileFileRead =>
        LET lines == last.before.files[last.filename]
            it == IterBlocks(BodyOf(lines))
        IN  (/\ Len(lines) >= 2
             /\ it.err = "none"
             /\ DistinctNames(it.blocks)
             /\ \A k \in 1..Len(it.blocks) : GetLabel(it.blocks[k].name).err = "none"
             /\ \E j, k \in 1..Len(it.blocks) :
                   Len(it.blocks[j].values) # Len(it.blocks[k].values))
            => last.err = "none"

HeaderMatches(line) == Len(line) = 3 /\ SubSeq(line, 1, 2) = ProfileHeader
WithHeader(lines) == <<ProfileHeader \o <<W(<<"p", ".", "c", "s", "v">>)>> >> \o Tail(lines)

\* C12: when the first line of a profile file does not match
\* "Profile file: <name>", from_file warns and ends as it ends for the same file
\* with a matching first line: with the same error, or with a ProfileInput
\* that has the same comment and the same data and no profile_file.
C12_HeaderMismatchOnlyWarns ==
    ProfileFileRead =>
        LET lines == last.before.files[last.filename] IN
        (Len(lines) >= 2 /\ ~HeaderMatches(lines[1])) =>
            LET twin == ProfileParse(last.filename, WithHeader(lines)) IN
            /\ last.warned
            /\ last.err = twin.err
            /\ last.err = "none" =>
                  /\ profile.profile_file = None
                  /\ profile.comment = twin.obj.comment
                  /\ profile.data = twin.obj.data
                  /\ twin.obj.profile_file # None

\* a file with blocks whose first line names no profile file has been read
C12_Witness ==
    /\ ProfileFileRead
    /\ last.err = "none"
    /\ ~HeaderMatches(last.before.files[last.filename][1])
    /\ last.warned
    /\ profile.profile_file = None
    /\ Len(profile.data) = 2

Labelled(data) == \A k \in 1..Len(data) : GetLabel(data[k].name).err = "none"
Numeric(data) ==
    \A k \in 1..Len(data) : \A v \in 1..Len(data[k].values) : ~IsWord(data[k].values[v])

\* C13: to_file, called with a destination it may write on an object whose
\* quantities are numeric, labels each quantity by the prefix of its name,
\* writes its values in order in rows of 9 whatever their number, ends each
\* block with one blank line, and raises for a name without a known prefix.
C13_RowsOfNineForAnyCount ==
    ProfileToFileCalled /\ Numeric(profile.data) =>
        IF ~Labelled(profile.data) THEN last.err = "NotImplementedError"
        ELSE /\ last.err = "none"
             /\ LET back == IterBlocks(BodyOf(fs.files[last.filename])) IN
                /\ back.err = "none"
                /\ Len(back.blocks) = Len(profile.data)
                /\ \A k \in 1..Len(back.blocks) :
                      /\ back.blocks[k].values = profile.data[k].values
                      /\ \A r \in 1..Len(back.blocks[k].rows) :
                            Len(back.blocks[k].rows[r]) = RowWidth

(***************************************************************************)
(* Properties of BathymetryInput, checked under SpecBathy.                 *)
(***************************************************************************)
BathyFileRead == last.op = "from_file" /\ last.cls = "bathy" /\ last.err = "none"
Filled(line) == {k \in 1..Len(line) : line[k] # EmptyCell}
Segments(lines) == Filled(lines[2]) \ {1}

\* the segment block gives every segment it names its four values and every
\* line of the matrix holds a height, one width per segment and a layer number
Consistent(lines) ==
    /\ Len(lines) >= 8
    /\ \A r \in 3..6 : Filled(lines[r]) = {1} \cup Segments(lines)
    /\ \A l \in 8..Len(lines) :
          Cardinality(Filled(lines[l])) = Cardinality(Segments(lines)) + 2

\* C14: a BathymetryInput that from_file returns, here for a file whose
\* segment block and matrix agree on the number of segments, has as many rows
\* of segment_data as data has columns other than the layer number and the
\* layer height.
C14_SegmentRowsMatchWidthColumns ==
    (BathyFileRead /\ Consistent(last.before.files[last.filename])) =>
        Len(bathy.segment_data.rows) = Len(bathy.data.columns) - 2

\* a line of the matrix without the empty cells that end it
RECURSIVE StripPad(_)
StripPad(line) ==
    IF line # <<>> /\ line[Len(line)] = EmptyCell
    THEN StripPad(SubSeq(line, 1, Len(line) - 1)) ELSE line

\* C15: from_file returns data with one row per line of the matrix, made of
\* the layer number, the layer height and the widths in file order: every
\* cell of the line but its trailing padding is in the row.
C15_OnlyPaddingDropped ==
    BathyFileRead =>
        LET lines == last.before.files[last.filename]
            matrix == SubSeq(lines, 8, Len(lines))
        IN  /\ Len(bathy.data.rows) = Len(matrix)
            /\ \A l \in 1..Len(matrix) :
                  LET real == StripPad(matrix[l]) IN
                  bathy.data.rows[l] =
                      <<real[Len(real)]>> \o SubSeq(real, 1, Len(real) - 1)

BathyFileWritten == last.op = "to_file" /\ last.cls = "bathy" /\ last.err = "none"

\* the segment block names a segment and gives every segment its four values
Complete(lines) ==
    /\ Len(lines) >= 6
    /\ Segments(lines) # {}
    /\ \A r \in 3..6 : Filled(lines[r]) = {1} \cup Segments(lines)

\* the rows DLX, ELWS, PHI0 and FRIC that to_file writes carry the raw names
\* and, for the segments in the order of the file read, the values of that file
ExportGivesBack(src, out) ==
    /\ Len(out) >= 6
    /\ SubSeq(out[2], 2, Len(out[2])) = SubSeq(StripPad(src[2]), 2, Len(StripPad(src[2])))
    /\ \A r \in 3..6 : out[r] = StripPad(src[r])

\* C16 as stated: exporting the segment metadata that from_file ingested gives
\* back the rows of the file, with every segment's values under the raw names.
C16_ExportInvertsIngest ==
    BathyFileWritten =>
        ExportGivesBack(loaded.bathy.raw, fs.files[last.filename])

\* C16, amended: when the segment block of the file names at least one
\* segment and gives every segment all four values, exporting the segment
\* metadata that from_file ingested gives back the rows DLX, ELWS, PHI0 and
\* FRIC of the file under their raw names, with the same values in the same
\* segment order.
C16_ExportInvertsIngestOfCompleteBlock ==
    (BathyFileWritten /\ Complete(loaded.bathy.raw)) =>
        ExportGivesBack(loaded.bathy.raw, fs.files[last.filename])

\* a file of MaxSegments complete segments with padding has been read and written
C16_Witness ==
    /\ BathyFileWritten
    /\ Complete(loaded.bathy.raw)
    /\ Cardinality(Segments(loaded.bathy.raw)) = MaxSegments
    /\ StripPad(loaded.bathy.raw[3]) # loaded.bathy.raw[3]
    /\ Len(bathy.segment_data.rows) = MaxSegments


(***************************************************************************)
(* The cards of w2_con.csv (pyqualw2/config/subconfig.py).                 *)
(*                                                                         *)
(* A section class is [name, fields]; a field is [name, alias, type], the  *)
(* alias being NoAlias where the class declares none.  Keyword arguments   *)
(* are a function from keys to values: Text(chars) for a str, List(items)  *)
(* for a list of str.  A built section is a function from field names to   *)
(* typed values.  The process environment holds no variable naming a field *)
(* (SubConfig is a pydantic-settings BaseSettings and would read it).      *)
(***************************************************************************)
NoAlias == <<>>
Fld(name, alias, type) == [name |-> name, alias |-> alias, type |-> type]
Scalar(t) == [list |-> FALSE, t |-> t]
ListOf(t) == [list |-> TRUE, t |-> t]
Text(chars) == [s |-> chars]
List(items) == [l |-> items]
IsText(v) == "s" \in DOMAIN v

PyBool(b) == [t |-> "bool", b |-> b]
PyStr(chars) == [t |-> "str", s |-> chars]
BoolTrue == {<<"1">>, <<"o", "n">>, <<"t">>, <<"t", "r", "u", "e">>, <<"y">>,
             <<"y", "e", "s">>}
BoolFalse == {<<"0">>, <<"o", "f", "f">>, <<"f">>, <<"f", "a", "l", "s", "e">>, <<"n">>,
              <<"n", "o">>}

\* pydantic's conversion of a str to a scalar field type: [err, v]
CoerceScalar(t, v) ==
    IF ~IsText(v) THEN [err |-> "ValidationError", v |-> None]
    ELSE CASE t = "int" -> ParseInt(v.s)
           [] t = "float" -> ParseFloat(v.s)
           [] t = "bool" ->
                IF Lower(v.s) \in BoolTrue THEN [err |-> "none", v |-> PyBool(TRUE)]
                ELSE IF Lower(v.s) \in BoolFalse THEN [err |-> "none", v |-> PyBool(FALSE)]
                ELSE [err |-> "ValidationError", v |-> None]
           [] OTHER -> [err |-> "none", v |-> PyStr(v.s)]

\* pydantic's conversion of a keyword argument to a field type: [err, v]
Coerce(type, v) ==
    IF ~type.list THEN CoerceScalar(type.t, v)
    ELSE IF IsText(v) THEN [err |-> "ValidationError", v |-> None]
    ELSE LET items == [k \in 1..Len(v.l) |-> CoerceScalar(type.t, Text(v.l[k]))] IN
         IF \E k \in 1..Len(items) : items[k].err # "none"
         THEN [err |-> "ValidationError", v |-> None]
         ELSE [err |-> "none", v |-> [k \in 1..Len(items) |-> items[k].v]]

\* the one key under which pydantic looks a field up: its alias when it has
\* one (the model configuration does not enable population by field name)
InputKey(f) == IF f.alias # NoAlias THEN f.alias ELSE f.name

ExtraFields == [extra_fields |-> TRUE]
Skipping(line) == [skipping |-> line]

\* cls(**kwargs): [err, obj, warnings].  SubConfig.validate warns of the keys
\* that are neither field names nor aliases; extra keys are then ignored; a
\* field whose key is absent or whose value does not convert is an error.
Construct(cls, kwargs) ==
    LET fields == cls.fields
        idx == 1..Len(fields)
        names == {fields[k].name : k \in idx}
        aliases == {fields[k].alias : k \in {q \in idx : fields[q].alias # NoAlias}}
        extras == (DOMAIN kwargs \ names) \ aliases
        warnings == IF extras # {} THEN {ExtraFields} ELSE {}
        missing == {k \in idx : InputKey(fields[k]) \notin DOMAIN kwargs}
        bad == {k \in idx \ missing :
                    Coerce(fields[k].type, kwargs[InputKey(fields[k])]).err # "none"}
    IN  IF missing \cup bad # {}
        THEN [err |-> "ValidationError", obj |-> None, warnings |-> warnings]
        ELSE [err |-> "none",
              obj |-> [n \in names |->
                          LET k == CHOOSE q \in idx : fields[q].name = n IN
                          Coerce(fields[k].type, kwargs[InputKey(fields[k])]).v],
              warnings |-> warnings]

Min(a, b) == IF a <= b THEN a ELSE b

\* kwargs after the assignments of pairs 1..n of the two lists of cells
RECURSIVE PairsToDict(_, _, _)
PairsToDict(header, values, n) ==
    IF n = 0 THEN <<>>
    ELSE LET d == PairsToDict(header, values, n - 1)
             key == Lower(Strip(header[n]))
         IN  [k \in DOMAIN d \cup {key} |->
                 IF k = key THEN Text(Strip(values[n])) ELSE d[k]]

\* the number of pairs the loop of parse_line_pair_table assigns
PairCountAll(header, values) == Min(Len(header), Len(values))
PairCount(header, values) ==
    LET n == Min(Len(header), Len(values))
        stops == {p \in 1..n : header[p] = <<>> \/ values[p] = <<>>}
    IN  IF stops = {} THEN n ELSE (CHOOSE p \in stops : \A q \in stops : p <= q) - 1

Max(a, b) == IF a >= b THEN a ELSE b

\* lines[a:b] for 0 <= a and 0 <= b
Slice(lines, a, b) == SubSeq(lines, a + 1, Min(b, Len(lines)))

\* ParseError(lines, lineno): the line number and the three parts of the
\* snippet of its message, the lines before, the line and the lines after
ParseError(lines, lineno) ==
    LET nlines == Len(lines) IN
    [lineno |-> lineno,
     before |-> Slice(lines, Max(0, lineno - 10), Min(nlines, lineno)),
     line |-> lines[lineno + 1],
     after |-> Slice(lines, Min(nlines, lineno + 1), Min(nlines, lineno + 10))]
NoException == [none |-> TRUE]

\* SubConfig.parse_line_pair_table: [err, exc, obj, cursor, warnings, kwargs]
ParseLinePairTable(cls, lines, i) ==
    LET failed(e, w, kw) == [err |-> e,
                             exc |-> IF e = "ParseError" THEN ParseError(lines, i)
                                     ELSE NoException,
                             obj |-> None, cursor |-> None,
                             warnings |-> w, kwargs |-> kw]
    IN
    IF i + 2 > Len(lines) THEN failed("IndexError", {}, <<>>)
    ELSE
    LET header == SplitOn(lines[i + 1], ",")
        values == SplitOn(lines[i + 2], ",")
        n == PairCount(header, values)
        kwargs == PairsToDict(header, values, n)
        c == Construct(cls, kwargs)
    IN  \* zip(strict=True): the lists ran out at different lengths
        IF n = Min(Len(header), Len(values)) /\ Len(header) # Len(values)
        THEN failed("ValueError", {}, PairsToDict(header, values, n))
        ELSE IF c.err # "none" THEN failed("ParseError", c.warnings, kwargs)
        ELSE [err |-> "none", exc |-> NoException, obj |-> c.obj, cursor |-> i + 3,
              warnings |-> c.warnings, kwargs |-> kwargs]

\* line.strip().split(",")
Cells(line) == SplitOn(Strip(line), ",")

\* the number of lines the loop of parse_row_variables goes through before it
\* meets a line whose first cell is empty, or the end of the list
ConsumedAll(rows) == Len(rows)
RECURSIVE Consumed(_)
Consumed(rows) ==
    IF rows = <<>> \/ Cells(rows[1])[1] = <<>> THEN 0
    ELSE 1 + Consumed(Tail(rows))

\* the values one line gives: its stripped cells before the first empty one
RowValues(line) ==
    LET t == [k \in 1..Len(Cells(line)) |-> Strip(Cells(line)[k])]
        e == FirstIn(t, {<<>>})
    IN  IF e = 0 THEN t ELSE SubSeq(t, 1, e - 1)

\* the lines (1-based among the data lines) skipped with a warning: those
\* beyond the number n of declared fields, of j lines gone through
SkippedNone(n, j) == {}
SkippedRows(n, j) == (n + 1)..j

\* SubConfig.parse_row_variables: [err, exc, obj, cursor, warnings, kwargs]
ParseRowVariables(cls, lines, i) ==
    LET rows == SubSeq(lines, i + 2, Len(lines))
        fields == cls.fields
        j == Consumed(rows)
        fed == 1..Min(j, Len(fields))
        kwargs == [key \in {fields[k].name : k \in fed} |->
                      List(RowValues(rows[CHOOSE k \in fed : fields[k].name = key]))]
        skipped == {Skipping((k - 1) + i + 1) : k \in SkippedRows(Len(fields), j)}
        c == Construct(cls, kwargs)
    IN  IF c.err # "none"
        THEN [err |-> "ParseError", exc |-> ParseError(lines, i),
              obj |-> None, cursor |-> None,
              warnings |-> skipped \cup c.warnings, kwargs |-> kwargs]
        ELSE [err |-> "none", exc |-> NoException, obj |-> c.obj, cursor |-> j + i + 2,
              warnings |-> skipped \cup c.warnings, kwargs |-> kwargs]

\* Title.parse: the ten lines from the cursor on, as many as there are, joined
\* by line feeds; the cursor moves on by twelve
TitleLines == 10
TitleAdvance == 12
TitleParse(lines, i) ==
    [err |-> "none", exc |-> NoException,
     obj |-> [title |-> JoinWith(Slice(lines, i, i + TitleLines), <<"\n">>)],
     cursor |-> i + TitleAdvance, warnings |-> {}, kwargs |-> <<>>]

\* the section classes
Title ==
    [name |-> "Title",
     fields |-> <<Fld(<<"t", "i", "t", "l", "e">>, NoAlias, Scalar("str"))>>]
TimestepControl ==
    [name |-> "TimestepControl",
     fields |-> <<Fld(<<"n", "d", "t">>, <<"n", "d", "l", "t">>, Scalar("int")),
                  Fld(<<"d", "l", "t", "m", "i", "n">>, NoAlias, Scalar("float")),
                  Fld(<<"d", "l", "t", "i", "n", "t", "r">>,
                      <<"d", "l", "t", "i", "n", "t", "e", "r">>, Scalar("bool"))>>]
Miscellaneous ==
    [name |-> "Miscellaneous",
     fields |-> <<Fld(<<"n", "d", "a", "y">>, NoAlias, Scalar("int")),
                  Fld(<<"s", "e", "l", "e", "c", "t", "c">>, NoAlias, Scalar("str")),
                  Fld(<<"h", "a", "b", "t", "a", "t", "c">>, NoAlias, Scalar("bool")),
                  Fld(<<"e", "n", "v", "i", "r", "p", "c">>, NoAlias, Scalar("bool")),
                  Fld(<<"a", "e", "r", "a", "t", "e", "c">>, NoAlias, Scalar("bool")),
                  Fld(<<"i", "n", "i", "t", "u", "w", "l">>, NoAlias, Scalar("bool")),
                  Fld(<<"o", "r", "c", "c">>, <<"o", "r", "g", "c", "c">>, Scalar("bool")),
                  Fld(<<"s", "e", "d", "_", "d", "i", "a", "g">>, NoAlias,
                      Scalar("bool"))>>]
TimestepDate ==
    [name |-> "TimestepDate",
     fields |-> <<Fld(<<"d", "l", "t", "d">>, NoAlias, ListOf("float"))>>]
TimestepLimitations ==
    [name |-> "TimestepLimitations",
     fields |-> <<Fld(<<"v", "i", "s", "c">>, NoAlias, ListOf("bool")),
                  Fld(<<"c", "e", "l", "c">>, NoAlias, ListOf("bool")),
                  Fld(<<"d", "l", "t", "a", "d", "d">>, NoAlias, ListOf("bool"))>>]

(***************************************************************************)
(* The decoders applied to one card.  A card of parse_line_pair_table is a *)
(* header line and a value line of up to MaxCells cells; a card of         *)
(* parse_row_variables is a header line and up to MaxRows further lines.   *)
(* The card stands at index i, after i other lines.                        *)
(***************************************************************************)
MaxCells == 4
MaxRows == 4
MaxTrailing == 11

UpperCase(c) ==
    IF \E k \in 1..Len(LowerLetters) : LowerLetters[k] = c
    THEN UpperLetters[CHOOSE k \in 1..Len(LowerLetters) : LowerLetters[k] = c]
    ELSE c
Upper(chars) == [k \in 1..Len(chars) |-> UpperCase(chars[k])]

\* the cells a header line may hold at position p
HeaderChoices(cls, p) ==
    IF p > Len(cls.fields) THEN {<<>>, <<"\n">>, <<"X">>}
    ELSE LET f == cls.fields[p] IN
         {Upper(f.name), <<>>}
            \cup (IF f.alias # NoAlias THEN {Upper(f.alias), <<" ">> \o f.alias} ELSE {})

\* the cells a value line may hold at position p
ValueChoices(cls, p) ==
    IF p > Len(cls.fields) THEN {<<>>, <<"\n">>}
    ELSE LET t == cls.fields[p].type.t IN
         CASE t = "int" -> {<<"1">>, <<"x">>, <<>>}
           [] t = "float" -> {<<"0", ".", "5">>}
           [] t = "bool" -> {<<"O", "F", "F">>, <<" ", "o", "n">>, <<"m", "a", "y", "b", "e">>}
           [] OTHER -> {<<"a", "b", "c">>}

RECURSIVE HeaderSeqs(_, _)
HeaderSeqs(cls, n) ==
    IF n = 0 THEN {<<>>}
    ELSE {Append(h, c) : h \in HeaderSeqs(cls, n - 1), c \in HeaderChoices(cls, n)}

RECURSIVE ValueSeqs(_, _)
ValueSeqs(cls, n) ==
    IF n = 0 THEN {<<>>}
    ELSE {Append(v, c) : v \in ValueSeqs(cls, n - 1), c \in ValueChoices(cls, n)}

Preamble(i) == [k \in 1..i |-> <<"x", "\n">>]
Card(i, header, values) ==
    Preamble(i) \o <<JoinWith(header, <<",">>), JoinWith(values, <<",">>), <<>> >>
Trailing(t) == [k \in 1..t |-> <<"y", "\n">>]

\* cards of Miscellaneous: every field named, the aliased one either way
MiscellaneousHeader(key) ==
    [p \in 1..Len(Miscellaneous.fields) |->
        IF Miscellaneous.fields[p].alias # NoAlias THEN key
        ELSE Upper(Miscellaneous.fields[p].name)]
MiscellaneousValues(orcc) ==
    << <<"1", "0">>, <<"a", "b", "c">>, <<"O", "F", "F">>, <<"O", "N">>, <<"O", "F", "F">>,
       <<"O", "N">>, orcc, <<"O", "F", "F", "\n">> >>

\* the lines that may follow the header line of a row-tabulated card
RowLines(cls) ==
    IF cls = TimestepDate
    THEN {<<"1", ",", "2">>, <<" ", "1", ".", "5", " ", "\n">>, <<"3", ",", ",", "4">>,
          <<>>, <<"x">>}
    ELSE {<<"O", "N", ",", "O", "F", "F">>, <<",", "O", "N">>,
          <<" ", "o", "n", " ", ",", " ", "o", "f", "f", " ", "\n">>,
          <<"O", "N", ",", ",", "O", "F", "F">>,
          <<"O", "N", ",", "O", "F", "F", ",", "O", "N", ",", "O", "F", "F">>, <<>>}

InitSubConfig ==
    /\ \E i \in 0..1 :
          \/ \E n \in 0..MaxCells, m \in 0..MaxCells :
                \E header \in HeaderSeqs(TimestepControl, n),
                   values \in ValueSeqs(TimestepControl, m) :
                      arg = [decode |-> "line_pair_table", cls |-> TimestepControl,
                             lines |-> Card(i, header, values), i |-> i]
          \/ \E key \in {<<"O", "R", "C", "C">>, <<"O", "R", "G", "C", "C">>},
                orcc \in {<<"O", "N">>, <<"O", "F", "F">>},
                t \in {0, MaxTrailing} :
                   arg = [decode |-> "line_pair_table", cls |-> Miscellaneous,
                          lines |-> Card(i, MiscellaneousHeader(key),
                                         MiscellaneousValues(orcc)) \o Trailing(t),
                          i |-> i]
          \/ \E cls \in {TimestepDate, TimestepLimitations}, n \in 0..MaxRows :
                \E rows \in [1..n -> RowLines(cls)] :
                   arg = [decode |-> "row_variables", cls |-> cls,
                          lines |-> Preamble(i) \o <<<<"N", "A", "M", "E", ",", "1", ",", "2", "\n">>>> \o rows, i |-> i]
          \/ \E t \in 1..(MaxTrailing + 1) :
                arg = [decode |-> "title", cls |-> Title,
                       lines |-> Preamble(i) \o Trailing(t), i |-> i]
    /\ ret = None
    /\ fs = BaseFs
    /\ w2con = None
    /\ loaded = NothingLoaded
    /\ lastSet = None
    /\ profile = None
    /\ bathy = None
    /\ last = NoCall
    /\ NoSimulation

ApplyParseLinePairTable ==
    /\ arg.decode = "line_pair_table"
    /\ ret = None
    /\ ret' = ParseLinePairTable(arg.cls, arg.lines, arg.i)
    /\ UNCHANGED <<fs, w2con, loaded, lastSet, profile, bathy, last, arg>>
    /\ UNCHANGED simvars

ApplyParseRowVariables ==
    /\ arg.decode = "row_variables"
    /\ ret = None
    /\ ret' = ParseRowVariables(arg.cls, arg.lines, arg.i)
    /\ UNCHANGED <<fs, w2con, loaded, lastSet, profile, bathy, last, arg>>
    /\ UNCHANGED simvars

ApplyTitleParse ==
    /\ arg.decode = "title"
    /\ ret = None
    /\ ret' = TitleParse(arg.lines, arg.i)
    /\ UNCHANGED <<fs, w2con, loaded, lastSet, profile, bathy, last, arg>>
    /\ UNCHANGED simvars

NextSubConfig == ApplyParseLinePairTable \/ ApplyParseRowVariables \/ ApplyTitleParse

SpecSubConfig == InitSubConfig /\ [][NextSubConfig]_vars


(***************************************************************************)
(* Properties of the card decoders, checked under SpecSubConfig.           *)
(***************************************************************************)
LinePairDecoded == arg.decode = "line_pair_table" /\ ret # None
HeaderCells(a) == SplitOn(a.lines[a.i + 1], ",")
ValueCells(a) == SplitOn(a.lines[a.i + 2], ",")

\* the card names every field of its class once, in declared order, under the
\* field's name or its alias, with a value that converts to the field's type
NamesEveryField(a) ==
    LET fields == a.cls.fields IN
    /\ Len(HeaderCells(a)) = Len(fields)
    /\ Len(ValueCells(a)) = Len(fields)
    /\ \A p \in 1..Len(fields) :
          /\ HeaderCells(a)[p] # <<>>
          /\ ValueCells(a)[p] # <<>>
          /\ Lower(Strip(HeaderCells(a)[p])) \in {fields[p].name, InputKey(fields[p])}
          /\ Coerce(fields[p].type, Text(Strip(ValueCells(a)[p]))).err = "none"

\* the same card with every aliased field named by its alias (byAlias) or by
\* its documented field name
Renamed(a, byAlias) ==
    LET fields == a.cls.fields
        header == [p \in 1..Len(fields) |->
                      IF fields[p].alias = NoAlias THEN HeaderCells(a)[p]
                      ELSE IF byAlias THEN fields[p].alias ELSE fields[p].name]
    IN  [a EXCEPT !.lines[a.i + 1] = JoinWith(header, <<",">>)]

\* C17: a card that names every field, naming the aliased fields (orcc/orgcc,
\* ndt/ndlt, dltintr/dltinter) by the documented field name or by the alias,
\* decodes successfully, and to the same typed values either way.
C17_NameAndAliasDecodeAlike ==
    (LinePairDecoded /\ NamesEveryField(arg)) =>
        LET byAlias == ParseLinePairTable(arg.cls, Renamed(arg, TRUE).lines, arg.i)
            byName == ParseLinePairTable(arg.cls, Renamed(arg, FALSE).lines, arg.i)
        IN  /\ ret.err = "none"
            /\ byAlias.err = "none"
            /\ byName.err = "none"
            /\ byAlias.obj = byName.obj
            /\ ret.obj = byAlias.obj


\* the positions of the card's header and value lines that are paired: those
\* before the first one at which the header cell or the value cell is empty
PairedPositions(a) ==
    {p \in 1..Min(Len(HeaderCells(a)), Len(ValueCells(a))) :
        \A q \in 1..p : HeaderCells(a)[q] # <<>> /\ ValueCells(a)[q] # <<>>}
NameAt(a, p) == Lower(Strip(HeaderCells(a)[p]))

\* C18: the section parse_line_pair_table returns is built from the cells
\* paired by position up to the first position where the header cell or the
\* value cell is empty, under the lower-cased, trimmed header cells as names
\* (a name given twice keeps its last value), and the cursor returned is i + 3.
C18_PairsUpToFirstEmptyCell ==
    (LinePairDecoded /\ ret.err = "none") =>
        /\ DOMAIN ret.kwargs = {NameAt(arg, p) : p \in PairedPositions(arg)}
        /\ \A p \in PairedPositions(arg) :
              (\A q \in PairedPositions(arg) : NameAt(arg, q) = NameAt(arg, p) => q <= p)
                  => ret.kwargs[NameAt(arg, p)] = Text(Strip(ValueCells(arg)[p]))
        /\ ret.obj = Construct(arg.cls, ret.kwargs).obj
        /\ ret.cursor = arg.i + 3

\* a card has been decoded whose fourth header cell is empty while cells
\* follow it, after a first line: three pairs were taken, the cursor is 4
C18_Witness ==
    /\ LinePairDecoded /\ ret.err = "none"
    /\ arg.i = 1
    /\ Len(HeaderCells(arg)) = MaxCells /\ Len(ValueCells(arg)) = MaxCells
    /\ Cardinality(PairedPositions(arg)) = 3
    /\ ValueCells(arg)[4] # <<>>
    /\ ret.cursor = 4


RowsDecoded == arg.decode = "row_variables" /\ ret # None
DataLines(a) == SubSeq(a.lines, a.i + 2, Len(a.lines))
TrimmedCells(line) == [k \in 1..Len(SplitOn(line, ",")) |-> Strip(SplitOn(line, ",")[k])]

\* the data lines before the first one whose first cell is empty
LinesConsumed(a) ==
    {p \in 1..Len(DataLines(a)) : \A q \in 1..p : TrimmedCells(DataLines(a)[q])[1] # <<>>}

\* the cells of a line before its first empty cell
ValuesBeforeEmpty(line) ==
    LET filled == {p \in 1..Len(TrimmedCells(line)) :
                      \A q \in 1..p : TrimmedCells(line)[q] # <<>>}
    IN  SubSeq(TrimmedCells(line), 1, Cardinality(filled))

\* C19: parse_row_variables consumes the lines after the header up to the
\* first line whose first cell is empty; the k-th of them gives the list of
\* the k-th declared field, its cells in order up to the first empty one; a
\* section is returned only when every declared field has its list, and the
\* cursor returned is i + the number of lines consumed + 2.
C19_RowPerFieldUpToEmptyLine ==
    RowsDecoded =>
        LET fields == arg.cls.fields
            consumed == Cardinality(LinesConsumed(arg))
        IN  /\ \A k \in 1..Len(fields) :
                  IF k <= consumed
                  THEN /\ fields[k].name \in DOMAIN ret.kwargs
                       /\ ret.kwargs[fields[k].name]
                              = List(ValuesBeforeEmpty(DataLines(arg)[k]))
                  ELSE fields[k].name \notin DOMAIN ret.kwargs
            /\ DOMAIN ret.kwargs \subseteq {fields[k].name : k \in 1..Len(fields)}
            /\ ret.err = "none" =>
                  /\ consumed >= Len(fields)
                  /\ ret.obj = Construct(arg.cls, ret.kwargs).obj
                  /\ ret.cursor = arg.i + consumed + 2

\* a card of three fields has been decoded from three lines followed by a
\* line whose first cell is empty, one of the lines having an empty cell
\* between two values, after a first line: the cursor is 6
C19_Witness ==
    /\ RowsDecoded /\ ret.err = "none"
    /\ arg.cls = TimestepLimitations /\ arg.i = 1
    /\ Len(DataLines(arg)) = 4
    /\ Cardinality(LinesConsumed(arg)) = 3
    /\ DataLines(arg)[4] # <<>>
    /\ \E k \in 1..3 : Len(ValuesBeforeEmpty(DataLines(arg)[k]))
                          < Len(TrimmedCells(DataLines(arg)[k]))
    /\ ret.cursor = 6


SkippingWarned == \E w \in ret.warnings : "skipping" \in DOMAIN w

FirstLinesOnly(a, n) == [a EXCEPT !.lines = SubSeq(a.lines, 1, a.i + 1 + n)]

C21_ZeroRowsDecode ==
    (/\ RowsDecoded
     /\ DataLines(arg) # <<>>
     /\ Strip(DataLines(arg)[1]) = <<>>) => ret.err = "none"


\* a ParseError for line i of the card, with the 10 lines before and the 10
\* lines after it, as far as the list has them
ParseErrorWithContext(a, r) ==
    /\ r.err = "ParseError"
    /\ r.exc.lineno = a.i
    /\ r.exc.line = a.lines[a.i + 1]
    /\ r.exc.before = SubSeq(a.lines, Max(1, a.i + 1 - 10), a.i)
    /\ r.exc.after = SubSeq(a.lines, a.i + 2, Min(Len(a.lines), a.i + 1 + 10))

\* C22: a paired card whose header line and value line have different
\* numbers of cells, and a card from whose decoded fields the section cannot
\* be built, fail with a ParseError that carries the line number and the 10
\* lines before and after it; no decoder fails with another exception.
C22_OnlyParseErrorEscapes ==
    /\ LinePairDecoded =>
          /\ Len(HeaderCells(arg)) # Len(ValueCells(arg)) => ParseErrorWithContext(arg, ret)
          /\ Construct(arg.cls, ret.kwargs).err # "none" => ParseErrorWithContext(arg, ret)
          /\ ret.err \in {"none", "ParseError"}
    /\ RowsDecoded =>
          /\ Construct(arg.cls, ret.kwargs).err # "none" => ParseErrorWithContext(arg, ret)
          /\ ret.err \in {"none", "ParseError"}


(***************************************************************************)
(* Properties of run_model, checked under SpecRunModel and, for            *)
(* termination, under SpecRunModelFair.                                    *)
(***************************************************************************)
Returned == run.pc = "done" /\ run.outcome = "returned"
TimedOut == run.pc = "done" /\ run.outcome = "raised" /\ run.message = "Simulation timed out"
JudgedStalled == Returned /\ run.message = "No file activity detected"

\* C23: run_model terminates; it never returns normally while the executable
\* is running; no poll happens once wait_time seconds have passed since the
\* launch; and a run whose executable neither exited on its own nor was
\* judged stalled ends with the executable killed and an error raised, not
\* before wait_time seconds have passed.
C23_TimeoutEnforced ==
    /\ <>(run.pc = "done")
    /\ [](Returned => process # "running")
    /\ [](\A k \in 1..Len(run.polls) : run.polls[k].t - run.start_time < arg.wait_time)
    /\ []((run.pc = "done" /\ process \in {"running", "killed"} /\ ~JudgedStalled)
              => /\ TimedOut
                 /\ process = "killed"
                 /\ clock - run.start_time >= arg.wait_time)

\* the run was ended by the timeout after several polls that saw activity
C23_Witness ==
    /\ TimedOut
    /\ process = "killed"
    /\ Len(run.polls) >= 3
    /\ \A k \in 1..Len(run.polls) : run.polls[k].active


LastPoll == run.polls[Len(run.polls)]
MonitoringBegan == run.start_time + SettleSeconds

\* the time of the last poll that saw file activity, or the time monitoring began
LastSeenActive ==
    SetMax({MonitoringBegan} \cup {run.polls[k].t : k \in {q \in 1..Len(run.polls) :
                                                          run.polls[q].active}})

\* C24: completion is reported for an executable that was still running only
\* after a poll in which none of the three files was modified within the
\* last 10 seconds and more than 10 seconds after the last activity seen (or
\* the begin of monitoring), and the executable is killed first; polls follow
\* each other at the fixed interval, and after a poll that saw activity the
\* run ends only by the timeout or by the executable's exit.
C24_StallJudgedAfterSilence ==
    /\ (Returned /\ process = "killed") => JudgedStalled
    /\ JudgedStalled =>
          /\ process # "running"
          /\ ~LastPoll.active
          /\ \A k \in 1..Len(output_files) :
                mtime[output_files[k]].exists
                    => LastPoll.t - mtime[output_files[k]].t >= 10
          /\ LastPoll.t - LastSeenActive > 10
    /\ \A k \in 1..(Len(run.polls) - 1) : run.polls[k + 1].t = run.polls[k].t + PollSeconds
    /\ (run.pc = "done" /\ run.polls # <<>> /\ LastPoll.active)
          => (TimedOut \/ (Returned /\ process = "exited"))

\* a running executable whose files were active and then fell silent has
\* been judged stalled and killed
C24_Witness ==
    /\ JudgedStalled
    /\ process = "killed"
    /\ \E k \in 1..Len(run.polls) : run.polls[k].active


(***************************************************************************)
(* Further properties of the input-file classes.                           *)
(***************************************************************************)
\* C25: once from_file has built the object, and after any sequence of
\* timedata assignments, time_lineno is an index of a line of content, the
\* line before it is the TMSTRT card, and reading timedata does not fail
\* with an index out of range.
C25_TimeLineInRange ==
    w2con # None =>
        LET lines == SplitLinesKeep(w2con.content) IN
        /\ 0 <= w2con.time_lineno
        /\ w2con.time_lineno < Len(lines)
        /\ StartsWith(lines[w2con.time_lineno], TMSTRT)
        /\ GetTimedata(w2con).err # "IndexError"


\* C26: a call of to_file that raises leaves the filesystem as it was: no
\* directory created, the destination neither created nor changed.
C26_FailedWriteLeavesNoTrace ==
    (ToFileCalled /\ last.err # "none") => fs = last.before


\* the object from_file gives for the file that to_file has just written
BathyReadBack == BathyRead(fs, last.filename)

\* C27: writing a BathymetryInput that from_file returned and reading the
\* written file gives an object whose data and segment_data have the same
\* shape, column names and values, and the same ignored titles.
C27_BathymetryRoundTrip ==
    BathyFileWritten =>
        /\ BathyReadBack.err = "none"
        /\ BathyReadBack.obj.data = bathy.data
        /\ BathyReadBack.obj.segment_data = bathy.segment_data
        /\ BathyReadBack.obj.ignored = bathy.ignored


\* the outcome of from_file for the file that to_file has just written
ProfileReadBack == ProfileRead(fs, last.filename)
QuantityNames(obj) == [k \in 1..Len(obj.data) |-> obj.data[k].name]

\* C28: when to_file has written a ProfileInput, reading the written file
\* gives back the same profile_file (unset when it was unset), the same
\* comment and the same quantity names in the same order.
C28_ProfileMetadataRoundTrip ==
    (ProfileToFileCalled /\ last.err = "none") =>
        /\ ProfileReadBack.err = "none"
        /\ ProfileReadBack.obj.profile_file = profile.profile_file
        /\ ProfileReadBack.obj.comment = profile.comment
        /\ QuantityNames(ProfileReadBack.obj) = QuantityNames(profile)


\* a decoder has returned a section for a cursor that indexes a line
SectionDecoded == ret # None /\ ret.err = "none" /\ arg.i < Len(arg.lines)

\* C29: a section decoder called with a cursor that indexes a line returns a
\* next cursor greater than the one it was given (by 12 for Title, by 3 for a
\* paired header and value line, by the rows consumed plus 2 for a
\* row-tabulated section) and never greater than the number of lines.
C29_CursorAdvancesWithinLines ==
    SectionDecoded =>
        /\ ret.cursor > arg.i
        /\ ret.cursor = arg.i + (CASE arg.decode = "title" -> 12
                                   [] arg.decode = "line_pair_table" -> 3
                                   [] arg.decode = "row_variables" ->
                                         Cardinality(LinesConsumed(arg)) + 2)
        /\ ret.cursor <= Len(arg.lines)


\* the lines with every run of blank lines that follows a line of a block
\* cut down to one blank line
RECURSIVE SqueezeBlanks(_, _)
SqueezeBlanks(lines, prev) ==
    IF lines = <<>> THEN <<>>
    ELSE IF Head(lines) # <<>> THEN <<Head(lines)>> \o SqueezeBlanks(Tail(lines), "line")
    ELSE IF prev = "start" THEN <<Head(lines)>> \o SqueezeBlanks(Tail(lines), "start")
    ELSE IF prev = "line" THEN <<Head(lines)>> \o SqueezeBlanks(Tail(lines), "blank")
    ELSE SqueezeBlanks(Tail(lines), "blank")

\* the lines from_file has handed to _iter_blocks
BlockLinesRead == SubSeq(last.before.files[last.filename], 3,
                         Len(last.before.files[last.filename]))
IterBlocksCalled ==
    /\ last.op = "from_file" /\ last.cls = "profile"
    /\ Suffix(last.filename) = Npt /\ Exists(last.before, last.filename)
    /\ Len(last.before.files[last.filename]) >= 2

\* C30: _iter_blocks comes to an end on the lines it is given, and blank
\* lines between blocks or after the last block, however many, are skipped
\* without error and without giving a block: the lines give the blocks they
\* give with one blank line in the place of each such run.
C30_BlankLinesSkipped ==
    (IterBlocksCalled /\ IterBlocks(SqueezeBlanks(BlockLinesRead, "start")).err = "none") =>
        IterBlocks(BlockLinesRead) = IterBlocks(SqueezeBlanks(BlockLinesRead, "start"))

=============================================================================
